---- MODULE Spec2Model ----
(***************************************************************************)
(* A model of the liblsl-rust wrapper (src/src/lib.rs): the typed push and *)
(* pull operations of StreamOutlet / StreamInlet, the construction and     *)
(* shared ownership of StreamInfo, and its XML (de)serialisation.          *)
(*                                                                         *)
(* Time stamps and sampling rates are f64 in the program.  Here a time     *)
(* stamp is an integer number of ticks, TicksPerSec ticks to the second,   *)
(* and a sampling rate is a number of samples per second that divides      *)
(* TicksPerSec, so that k / srate is an exact number of ticks (the model   *)
(* is of real-number arithmetic, not of f64 rounding).                     *)
(***************************************************************************)
EXTENDS Integers, Sequences, FiniteSets, TLC

(***************************************************************************)
(* Bounds of the model.                                                    *)
(***************************************************************************)
TicksPerSec == 2
MaxChan == 1
MaxChunk == 3
MaxStamp == 4
MaxClock == 2
MaxLast == 1
MaxQueue == 2
MaxHandles == 2
MaxObjs == 3
MaxNative == 2
MaxNodes == 2
MaxFound == 2
MaxCode == 6
MaxEnds == 2
MaxStreams == 2
MaxNow == 3
MaxForget == 2
MaxOpts == 2
MaxFmt == 8
MaxCurNodes == 3
MaxCursors == 2

(***************************************************************************)
(* Program constants.                                                      *)
(***************************************************************************)
IRREGULAR_RATE == 0
FOREVER == 32000000
DEDUCED_TIMESTAMP == -TicksPerSec

\* error codes of the engine (lsl-sys generated bindings)
lsl_error_code_t_lsl_timeout_error == -1
lsl_error_code_t_lsl_lost_error == -2
lsl_error_code_t_lsl_argument_error == -3
lsl_error_code_t_lsl_internal_error == -4

\* a stand-in for usize::MAX, the value (0usize - 1) wraps to in a release
\* build: any number larger than every length of the model behaves alike
USIZE_MAX == MaxChunk + MaxChunk + 2

(***************************************************************************)
(* Results: Ok(val), Err(kind), or a panic (the process aborts).           *)
(***************************************************************************)
Ok(v) == [tag |-> "Ok", err |-> "none", val |-> v]
Err(e) == [tag |-> "Err", err |-> e, val |-> 0]
Panic == [tag |-> "panic", err |-> "none", val |-> 0]
NoResult == [tag |-> "none", err |-> "none", val |-> 0]

\* a conversion that would take every code it does not know for Internal
ec_to_result_known(ec) ==
    IF ec < 0
    THEN CASE ec = lsl_error_code_t_lsl_timeout_error -> Err("Timeout")
           [] ec = lsl_error_code_t_lsl_argument_error -> Err("BadArgument")
           [] ec = lsl_error_code_t_lsl_lost_error -> Err("StreamLost")
           [] OTHER -> Err("Internal")
    ELSE Ok(ec)

\* fn ec_to_result(ec: i32) -> Result<i32>
ec_to_result(ec) ==
    IF ec < 0
    THEN CASE ec = lsl_error_code_t_lsl_timeout_error -> Err("Timeout")
           [] ec = lsl_error_code_t_lsl_argument_error -> Err("BadArgument")
           [] ec = lsl_error_code_t_lsl_lost_error -> Err("StreamLost")
           [] ec = lsl_error_code_t_lsl_internal_error -> Err("Internal")
           [] OTHER -> Err("Unknown")
    ELSE Ok(ec)

(***************************************************************************)
(* The value types push_sample_ex / pull_sample are implemented for, and   *)
(* the helper and native function each impl hands the call to.             *)
(***************************************************************************)
ValueTypes == {"f32", "f64", "i8", "i16", "i32", "i64", "String", "str", "bytes"}

\* impl ExPushable<vec::Vec<T>> for StreamOutlet
PushImpl(vtype) ==
    CASE vtype = "f32" -> [helper |-> "numeric", func |-> "lsl_push_sample_ftp"]
      [] vtype = "f64" -> [helper |-> "numeric", func |-> "lsl_push_sample_dtp"]
      [] vtype = "i8" -> [helper |-> "numeric", func |-> "lsl_push_sample_ctp"]
      [] vtype = "i16" -> [helper |-> "numeric", func |-> "lsl_push_sample_stp"]
      [] vtype = "i32" -> [helper |-> "numeric", func |-> "lsl_push_sample_itp"]
      [] vtype = "i64" -> [helper |-> "numeric", func |-> "lsl_push_sample_ltp"]
      [] vtype = "String" -> [helper |-> "blob", func |-> "lsl_push_sample_buftp"]
      [] vtype = "str" -> [helper |-> "blob", func |-> "lsl_push_sample_buftp"]
      [] vtype = "bytes" -> [helper |-> "blob", func |-> "lsl_push_sample_buftp"]

VARIABLES
    outlet,     \* StreamOutlet: [channel_count, nominal_rate]
    lastStamp,  \* engine: the time stamp of the sample transmitted last
    call,       \* the operation under way or just finished, with its arguments
    pushLog,    \* the push_sample_ex calls the operation made, in order
    native,     \* the native push calls the operation made, in order
    clockReads, \* what local_clock() read for the operation, in order
    outcome,    \* what the operation returned (or that it panicked)
    inlet,      \* StreamInlet: [channel_count]
    queue,      \* engine: the samples received and not yet pulled, oldest first
    lost,       \* engine: the stream's source is lost
    pull,       \* the pull operation under way or just finished
    pending0,   \* the queue as it was when the operation began
    arrived,    \* the samples the engine received while the operation ran
    pulled,     \* what the pull operation returned
    heap,       \* native StreamInfo objects and the Rc counts of their handles
    objs,       \* the StreamInfo and XMLElement values the program holds
    lastOp,     \* the operation done last on them
    sargs,      \* the arguments StreamInfo::new was called with
    natives,    \* engine: the streaminfo objects made, in the order made
    dataOp,     \* the operation done last on StreamInfo data, and its result
    descTree,   \* engine: the description tree of the StreamInfo whose cursors are used
    xmlOp,      \* the XMLElement operation done last, its strings and its result
    apiCall,    \* the function called last, its arguments and what the engine met
    apiNative,  \* the native calls that call made, in order, with what they returned
    apiResult,  \* what that call returned (or that it panicked)
    ends,       \* the StreamOutlet and StreamInlet values made and their native objects
    endOp,      \* the operation done last on them
    netClock,   \* the time, in ticks, since the ContinuousResolver was made
    advertising, \* network: the streams that advertise themselves
    stoppedAt,  \* network: per stream the time it stopped advertising (-1: it did not)
    lastSeen,   \* engine: per stream the time the resolver saw it last (-1: never)
    resolver,   \* the ContinuousResolver the program holds
    crOp,       \* the operation done last with the resolver
    crResult,   \* what it returned
    curTree,    \* engine: the nodes of a description tree that cursors are held into
    cursors,    \* the XMLElement values the program holds: the node of each
    curOp       \* the operation done last with them

pushVars == <<outlet, lastStamp, call, pushLog, native, clockReads, outcome>>

pullVars == <<inlet, queue, lost, pull, pending0, arrived, pulled>>

infoVars == <<heap, objs, lastOp>>

dataVars == <<sargs, natives, dataOp>>

treeVars == <<descTree, xmlOp>>

apiVars == <<apiCall, apiNative, apiResult>>

endVars == <<ends, endOp>>

crVars == <<netClock, advertising, stoppedAt, lastSeen, resolver, crOp, crResult>>

curVars == <<curTree, cursors, curOp>>

restVars == <<treeVars, apiVars, endVars, crVars, curVars>>

vars == <<pushVars, pullVars, infoVars, dataVars, restVars>>

notPush == <<pullVars, infoVars, dataVars, restVars>>

notPull == <<pushVars, infoVars, dataVars, restVars>>

notInfo == <<pushVars, pullVars, dataVars, restVars>>

notData == <<pushVars, pullVars, infoVars, restVars>>

notTree == <<pushVars, pullVars, infoVars, dataVars, apiVars, endVars, crVars, curVars>>

notApi == <<pushVars, pullVars, infoVars, dataVars, treeVars, endVars, crVars, curVars>>

notInfoEnds == <<pushVars, pullVars, dataVars, treeVars, apiVars, crVars, curVars>>

notCr == <<pushVars, pullVars, infoVars, dataVars, treeVars, apiVars, endVars, curVars>>

notCur == <<pushVars, pullVars, infoVars, dataVars, treeVars, apiVars, endVars, crVars>>

\* no operation of the outlet is under way
Idle == [op |-> "idle", vtype |-> "none", lens |-> <<>>, timestamps |-> <<>>,
         pushthrough |-> FALSE]

\* no operation of the inlet is under way
PullIdle == [op |-> "idle", ptype |-> "none", pc |-> "idle", timeout |-> 0,
             samples |-> <<>>, stamps |-> <<>>, polls |-> 0, resp |-> <<>>]

\* no native StreamInfo object: per handle the strong count of its Rc, the
\* number of times it was destroyed, and whether its description tree was
\* edited since the engine made the object
EmptyHeap ==
    [created |-> 0, strong |-> [h \in 1..MaxHandles |-> 0],
     destroyed |-> [h \in 1..MaxHandles |-> 0], misuse |-> FALSE,
     edited |-> [h \in 1..MaxHandles |-> FALSE]]

\* no value in a place of the program
NoObj == [kind |-> "none", handle |-> 0, cursor |-> "null"]

\* the operation done last: the handle of the value made, dropped or used,
\* whether the operation released the native object, and the handle of the
\* native object whose tree it edited (0: none)
NoOp == [op |-> "none", kind |-> "none", handle |-> 0, released |-> FALSE, edit |-> 0]

\* the program has no StreamInfo
InfoOff ==
    /\ heap = EmptyHeap
    /\ objs = [o \in 1..MaxObjs |-> NoObj]
    /\ lastOp = NoOp

NoDataOp == [op |-> "none", src |-> 0, dst |-> 0, native_ok |-> TRUE, res |-> NoResult]

\* StreamInfo::new was not called
DataOff ==
    /\ sargs = <<>>
    /\ natives = <<>>
    /\ dataOp = NoDataOp

NoXmlOp == [op |-> "none", path |-> <<>>, strs |-> <<>>, res |-> NoResult]

\* the program has no cursor into a description tree
TreeOff ==
    /\ descTree = <<>>
    /\ xmlOp = NoXmlOp

NoApiCall == [fn |-> "none", strs |-> <<>>, args |-> <<>>]

\* no function of the library was called
ApiOff ==
    /\ apiCall = NoApiCall
    /\ apiNative = <<>>
    /\ apiResult = NoResult

\* no StreamOutlet or StreamInlet made: per native object its kind, whether
\* the program holds its value, the number of times it was destroyed, a
\* native call on it after that, and the handle of the StreamInfo it was
\* made from
NoEnd == [kind |-> "none", live |-> FALSE, destroyed |-> 0, misuse |-> FALSE, src |-> 0]

NoEndOp == [op |-> "none", end |-> 0]

EndsOff ==
    /\ ends = [e \in 1..MaxEnds |-> NoEnd]
    /\ endOp = NoEndOp

NoResolver == [made |-> FALSE, forget_after |-> 0]

\* no ContinuousResolver made, no stream on the network
CrOff ==
    /\ netClock = 0
    /\ advertising = {}
    /\ stoppedAt = [s \in 1..MaxStreams |-> -1]
    /\ lastSeen = [s \in 1..MaxStreams |-> -1]
    /\ resolver = NoResolver
    /\ crOp = "none"
    /\ crResult = NoResult

\* the program holds no cursor
NoCurOp == [op |-> "none", at |-> 0, valid |-> FALSE, crashed |-> FALSE]

CurOff ==
    /\ curTree = <<>>
    /\ cursors = <<>>
    /\ curOp = NoCurOp

\* nothing but the outlet, the inlet and the StreamInfo objects is in use
RestOff == TreeOff /\ ApiOff /\ EndsOff /\ CrOff /\ CurOff

\* the program has no outlet
PushOff ==
    /\ outlet = [channel_count |-> 0, nominal_rate |-> IRREGULAR_RATE]
    /\ lastStamp = 0
    /\ call = Idle
    /\ pushLog = <<>>
    /\ native = <<>>
    /\ clockReads = <<>>
    /\ outcome = NoResult

\* the program has no inlet
PullOff ==
    /\ inlet = [channel_count |-> 0]
    /\ queue = <<>>
    /\ lost = FALSE
    /\ pull = PullIdle
    /\ pending0 = <<>>
    /\ arrived = <<>>
    /\ pulled = NoResult

(***************************************************************************)
(* The engine's side of a push.                                            *)
(***************************************************************************)
\* the sampling rates of the model: irregular, or a divisor of TicksPerSec
Rates == {r \in 0..TicksPerSec : r = IRREGULAR_RATE \/ TicksPerSec % r = 0}

\* the time stamp the engine gives a sample pushed with `timestamp`:
\* 0.0 is "use the current time", DEDUCED_TIMESTAMP is "the preceding stamp
\* plus one sampling interval (plus nothing for an irregular rate)"
EngineStamp(timestamp, now, last, srate) ==
    IF timestamp = 0 THEN now
    ELSE IF timestamp = DEDUCED_TIMESTAMP
         THEN IF srate = IRREGULAR_RATE THEN last ELSE last + (TicksPerSec \div srate)
         ELSE timestamp

(***************************************************************************)
(* An operation's running state: the calls made so far, the engine's last  *)
(* stamp, and the result so far (Ok while it runs on).                     *)
(***************************************************************************)
Start(last) ==
    [log |-> <<>>, native |-> <<>>, clockReads |-> <<>>, last |-> last, res |-> Ok(0)]

\* the native push: returns `ec`; a sample is transmitted unless ec < 0
NativePush(st, srate, func, k, timestamp, pushthrough, now, ec) ==
    LET stamp == EngineStamp(timestamp, now, st.last, srate)
        sent == ec >= 0
    IN [st EXCEPT
          !.native = Append(@, [func |-> func, k |-> k, timestamp |-> timestamp,
                                pushthrough |-> pushthrough, sent |-> sent,
                                stamp |-> IF sent THEN stamp ELSE 0]),
          !.last = IF sent THEN stamp ELSE @,
          !.res = ec_to_result(ec)]

\* a plausible slip: only a sample that is too long is refused
assert_len_le(o, len) == len <= o.channel_count

\* fn assert_len(&self, len: usize): TRUE when the assertion passes
assert_len(o, len) == len = o.channel_count

\* fn safe_push_numeric<T>(&self, func, data, timestamp, pushthrough)
safe_push_numeric(st, o, func, k, len, timestamp, pushthrough, now, ec) ==
    IF ~assert_len(o, len)
    THEN [st EXCEPT !.res = Panic]
    ELSE LET st2 == NativePush(st, o.nominal_rate, func, k, timestamp, pushthrough, now, ec)
         IN IF st2.res.tag = "Ok" THEN [st2 EXCEPT !.res = Ok(0)] ELSE st2

\* fn safe_push_blob<T: AsRef<[u8]>>(&self, data, timestamp, pushthrough)
\* (the lengths of the blobs are not modelled: one of 4 GiB or more panics)
safe_push_blob(st, o, k, len, timestamp, pushthrough, now, ec) ==
    IF ~assert_len(o, len)
    THEN [st EXCEPT !.res = Panic]
    ELSE LET st2 == NativePush(st, o.nominal_rate, "lsl_push_sample_buftp", k,
                               timestamp, pushthrough, now, ec)
         IN IF st2.res.tag = "Ok" THEN [st2 EXCEPT !.res = Ok(0)] ELSE st2

\* fn push_sample_ex(&self, data: &T, timestamp: f64, pushthrough: bool)
\* `k` is the index of the sample in its chunk (0 for a single sample), `len`
\* the length of the sample's vector
push_sample_ex(st, o, vtype, k, len, timestamp, pushthrough, now, ec) ==
    LET st1 == [st EXCEPT !.log = Append(@, [k |-> k, timestamp |-> timestamp,
                                             pushthrough |-> pushthrough])]
    IN IF PushImpl(vtype).helper = "numeric"
       THEN safe_push_numeric(st1, o, PushImpl(vtype).func, k, len, timestamp,
                              pushthrough, now, ec)
       ELSE safe_push_blob(st1, o, k, len, timestamp, pushthrough, now, ec)

\* a plausible slip: every sample of the chunk carries the caller's flag
ChunkFlagAll(pushthrough, k, max_k) == pushthrough

\* the flag push_chunk_ex passes with sample k >= 1: `pushthrough && (k == max_k)`
ChunkFlag(pushthrough, k, max_k) == pushthrough /\ (k = max_k)

\* a loop that would push the rest of the chunk after a push that failed
RECURSIVE push_chunk_ex_loop_on(_, _, _, _, _, _, _, _, _)
push_chunk_ex_loop_on(st, o, vtype, lens, k, max_k, pushthrough, now, ecs) ==
    IF k > max_k \/ st.res.tag = "panic"
    THEN st
    ELSE push_chunk_ex_loop_on(
             push_sample_ex(st, o, vtype, k, lens[k + 1], DEDUCED_TIMESTAMP,
                            ChunkFlag(pushthrough, k, max_k), now, ecs[k + 1]),
             o, vtype, lens, k + 1, max_k, pushthrough, now, ecs)

\* the body of push_chunk_ex's loop `for k in 1..=max_k`, from index k on;
\* `?` ends the operation at the first push that does not return Ok
RECURSIVE push_chunk_ex_loop(_, _, _, _, _, _, _, _, _)
push_chunk_ex_loop(st, o, vtype, lens, k, max_k, pushthrough, now, ecs) ==
    IF k > max_k \/ st.res.tag # "Ok"
    THEN st
    ELSE push_chunk_ex_loop(
             push_sample_ex(st, o, vtype, k, lens[k + 1], DEDUCED_TIMESTAMP,
                            ChunkFlag(pushthrough, k, max_k), now, ecs[k + 1]),
             o, vtype, lens, k + 1, max_k, pushthrough, now, ecs)

\* a push_chunk_ex that would read the clock before it looks at the chunk
push_chunk_ex_clock_first(st, o, vtype, lens, timestamp, pushthrough, now, ecs) ==
    LET st1 == [st EXCEPT !.clockReads = IF timestamp = 0 THEN Append(@, now) ELSE @]
    IN  IF Len(lens) # 0
        THEN LET max_k == Len(lens) - 1
                 first == push_sample_ex(st1, o, vtype, 0, lens[1],
                                         (IF timestamp = 0 THEN now ELSE timestamp)
                                         - (IF o.nominal_rate # IRREGULAR_RATE
                                            THEN (max_k * TicksPerSec) \div o.nominal_rate
                                            ELSE 0),
                                         pushthrough /\ (Len(lens) = 1), now, ecs[1])
             IN push_chunk_ex_loop(first, o, vtype, lens, 1, max_k, pushthrough, now, ecs)
        ELSE st1

\* the time stamp push_chunk_ex passes with the first sample of a chunk
FirstStamp(timestamp, now, srate, max_k) ==
    LET t0 == IF timestamp = 0 THEN now ELSE timestamp
    IN IF srate # IRREGULAR_RATE THEN t0 - ((max_k * TicksPerSec) \div srate) ELSE t0

\* fn push_chunk_ex(&self, samples: &vec::Vec<T>, timestamp: f64, pushthrough: bool)
\* `lens` holds the length of each sample of the chunk, `ecs` what the native
\* push returns for each, `now` what local_clock() reads
push_chunk_ex(st, o, vtype, lens, timestamp, pushthrough, now, ecs) ==
    IF Len(lens) # 0
    THEN LET max_k == Len(lens) - 1
             st1 == [st EXCEPT !.clockReads =
                        IF timestamp = 0 THEN Append(@, now) ELSE @]
             first == push_sample_ex(st1, o, vtype, 0, lens[1],
                                     FirstStamp(timestamp, now, o.nominal_rate, max_k),
                                     pushthrough /\ (Len(lens) = 1), now, ecs[1])
         IN push_chunk_ex_loop(first, o, vtype, lens, 1, max_k, pushthrough, now, ecs)
    ELSE st

\* the loop `for k in 0..max_k` of push_chunk_stamped_ex, from index k on;
\* samples[k] panics when k is not an index of samples
RECURSIVE push_chunk_stamped_ex_loop(_, _, _, _, _, _, _, _, _)
push_chunk_stamped_ex_loop(st, o, vtype, lens, timestamps, k, max_k, now, ecs) ==
    IF k >= max_k \/ st.res.tag # "Ok"
    THEN st
    ELSE IF k >= Len(lens)
         THEN [st EXCEPT !.res = Panic]
         ELSE push_chunk_stamped_ex_loop(
                  push_sample_ex(st, o, vtype, k, lens[k + 1], timestamps[k + 1],
                                 FALSE, now, ecs[k + 1]),
                  o, vtype, lens, timestamps, k + 1, max_k, now, ecs)

\* a plausible slip: only too few time stamps are refused
push_chunk_stamped_ex_le(st, o, vtype, lens, timestamps, pushthrough, now, ecs, build) ==
    IF Len(lens) > Len(timestamps) \/ Len(lens) = 0
    THEN [st EXCEPT !.res = Panic]
    ELSE LET max_k == Len(lens) - 1
             st1 == push_chunk_stamped_ex_loop(st, o, vtype, lens, timestamps,
                                               0, max_k, now, ecs)
         IN IF st1.res.tag # "Ok"
            THEN st1
            ELSE push_sample_ex(st1, o, vtype, max_k, lens[max_k + 1],
                                timestamps[max_k + 1], pushthrough, now,
                                ecs[max_k + 1])

\* fn push_chunk_stamped_ex(&self, samples, timestamps, pushthrough)
\* `build` is "debug" (arithmetic overflow panics) or "release" (it wraps)
push_chunk_stamped_ex(st, o, vtype, lens, timestamps, pushthrough, now, ecs, build) ==
    IF Len(lens) # Len(timestamps)
    THEN [st EXCEPT !.res = Panic]
    ELSE IF Len(lens) = 0 /\ build = "debug"
         THEN [st EXCEPT !.res = Panic]
         ELSE LET max_k == IF Len(lens) = 0 THEN USIZE_MAX ELSE Len(lens) - 1
                  st1 == push_chunk_stamped_ex_loop(st, o, vtype, lens, timestamps,
                                                    0, max_k, now, ecs)
              IN IF st1.res.tag # "Ok" \/ Len(lens) = 0
                 THEN st1
                 ELSE push_sample_ex(st1, o, vtype, max_k, lens[max_k + 1],
                                     timestamps[max_k + 1], pushthrough, now,
                                     ecs[max_k + 1])

\* a push_sample that would leave the sample in the buffer
push_sample_buffered(st, o, vtype, len, now, ec) ==
    push_sample_ex(st, o, vtype, 0, len, 0, FALSE, now, ec)

\* impl Pushable: fn push_sample(&self, data: &T) -> Result<()>
push_sample(st, o, vtype, len, now, ec) ==
    push_sample_ex(st, o, vtype, 0, len, 0, TRUE, now, ec)

\* impl Pushable: fn push_chunk(&self, data: &vec::Vec<T>) -> Result<()>
push_chunk(st, o, vtype, lens, now, ecs) ==
    push_chunk_ex(st, o, vtype, lens, 0, TRUE, now, ecs)

\* impl Pushable: fn push_chunk_stamped(&self, samples, stamps) -> Result<()>
push_chunk_stamped(st, o, vtype, lens, stamps, now, ecs, build) ==
    push_chunk_stamped_ex(st, o, vtype, lens, stamps, TRUE, now, ecs, build)

(***************************************************************************)
(* The inputs of the push operations.                                      *)
(***************************************************************************)
\* the lengths of a sample's vector: every channel count, and one more
SampleLens == 0..(MaxChan + 1)

\* the time stamps a caller passes: 0 ("now") and explicit ones
Stamps == 0..MaxStamp

\* what local_clock() can read (never 0)
ClockValues == 1..MaxClock

\* what the native push can return: success, or an error code
PushErrCodes == {lsl_error_code_t_lsl_argument_error, lsl_error_code_t_lsl_internal_error}

\* the chunks of n samples: all of the outlet's length, or one of another
ChunkLens(o, n) ==
    {[i \in 1..n |-> o.channel_count]}
    \cup {[i \in 1..n |-> IF i = b THEN l ELSE o.channel_count] :
             b \in 1..n, l \in SampleLens \ {o.channel_count}}

\* the native results of n pushes: all succeed, or the f-th returns an error
ChunkCodes(n) ==
    {[i \in 1..n |-> 0]}
    \cup {[i \in 1..n |-> IF i = f THEN lsl_error_code_t_lsl_internal_error ELSE 0] :
             f \in 1..n}

\* the builds of the program: they differ where usize arithmetic overflows,
\* which takes a chunk of no samples
Builds(n) == IF n = 0 THEN {"debug", "release"} ELSE {"release"}

\* the value types the chunk operations are run with: one per helper (the
\* chunk operations are written once, for every type)
ChunkValueTypes == {"f64", "String"}

\* the time stamps of a stamped chunk of n samples: "now", an early and a
\* late explicit stamp per sample; a sequence of another length is not read
StampSeqs(n, m) ==
    IF m = n THEN [1..m -> {0, 1, MaxStamp}] ELSE {[i \in 1..m |-> 1]}

PushInit ==
    /\ outlet \in [channel_count : 0..MaxChan, nominal_rate : Rates]
    /\ lastStamp = 0
    /\ call = Idle
    /\ pushLog = <<>>
    /\ native = <<>>
    /\ clockReads = <<>>
    /\ outcome = NoResult

\* the outlet is alive and no operation is under way
PushReady == call = Idle /\ outcome.tag # "panic"

\* an operation ran from the idle outlet to its end, leaving st
Ran(c, st) ==
    /\ call' = c
    /\ pushLog' = st.log
    /\ native' = st.native
    /\ clockReads' = st.clockReads
    /\ lastStamp' = st.last
    /\ outcome' = st.res
    /\ UNCHANGED <<outlet, notPush>>

PushSampleEx ==
    /\ PushReady
    /\ \E vtype \in ValueTypes, len \in SampleLens,
       timestamp \in Stamps \cup {DEDUCED_TIMESTAMP}, pushthrough \in BOOLEAN,
       now \in ClockValues, ec \in {0} \cup PushErrCodes :
        Ran([op |-> "push_sample_ex", vtype |-> vtype, lens |-> <<len>>,
             timestamps |-> <<timestamp>>, pushthrough |-> pushthrough],
            push_sample_ex(Start(lastStamp), outlet, vtype, 0, len, timestamp,
                           pushthrough, now, ec))

PushChunkEx ==
    /\ PushReady
    /\ \E vtype \in ChunkValueTypes, n \in 0..MaxChunk, timestamp \in Stamps,
       pushthrough \in BOOLEAN, now \in ClockValues :
        \E lens \in ChunkLens(outlet, n), ecs \in ChunkCodes(n) :
            Ran([op |-> "push_chunk_ex", vtype |-> vtype, lens |-> lens,
                 timestamps |-> <<timestamp>>, pushthrough |-> pushthrough],
                push_chunk_ex(Start(lastStamp), outlet, vtype, lens, timestamp,
                              pushthrough, now, ecs))

PushChunkStampedEx ==
    /\ PushReady
    /\ \E vtype \in ChunkValueTypes, n \in 0..MaxChunk, m \in 0..MaxChunk,
       pushthrough \in BOOLEAN, now \in ClockValues :
        \E lens \in ChunkLens(outlet, n), timestamps \in StampSeqs(n, m),
           ecs \in ChunkCodes(n), build \in Builds(n) :
            Ran([op |-> "push_chunk_stamped_ex", vtype |-> vtype, lens |-> lens,
                 timestamps |-> timestamps, pushthrough |-> pushthrough],
                push_chunk_stamped_ex(Start(lastStamp), outlet, vtype, lens,
                                      timestamps, pushthrough, now, ecs, build))

\* the caller goes on after an operation that returned (the model follows it
\* while the engine's last stamp is at most MaxLast)
PushReturn ==
    /\ call # Idle
    /\ lastStamp \in 0..MaxLast
    /\ outcome.tag \in {"Ok", "Err"}
    /\ call' = Idle
    /\ pushLog' = <<>>
    /\ native' = <<>>
    /\ clockReads' = <<>>
    /\ outcome' = NoResult
    /\ UNCHANGED <<outlet, lastStamp, notPush>>

PushNext == PushSampleEx \/ PushChunkEx \/ PushChunkStampedEx \/ PushReturn

\* the time stamps push_chunk_stamped is called with: "now" or a late
\* explicit stamp per sample; a sequence of another length is not read
SimpleStampSeqs(n, m) ==
    IF m = n THEN [1..m -> {0, MaxStamp}] ELSE {[i \in 1..m |-> MaxStamp]}

\* the operations of Pushable; the call keeps what the clock read and what
\* the native pushes returned for it
PushSample ==
    /\ PushReady
    /\ \E vtype \in ValueTypes, len \in SampleLens, now \in ClockValues,
          ec \in {0} \cup PushErrCodes :
        Ran([op |-> "push_sample", vtype |-> vtype, lens |-> <<len>>,
             timestamps |-> <<>>, pushthrough |-> TRUE, now |-> now, ecs |-> <<ec>>,
             build |-> "release"],
            push_sample(Start(lastStamp), outlet, vtype, len, now, ec))

PushChunk ==
    /\ PushReady
    /\ \E vtype \in ChunkValueTypes, n \in 0..MaxChunk, now \in ClockValues :
        \E lens \in ChunkLens(outlet, n), ecs \in ChunkCodes(n) :
            Ran([op |-> "push_chunk", vtype |-> vtype, lens |-> lens,
                 timestamps |-> <<>>, pushthrough |-> TRUE, now |-> now, ecs |-> ecs,
                 build |-> "release"],
                push_chunk(Start(lastStamp), outlet, vtype, lens, now, ecs))

PushChunkStamped ==
    /\ PushReady
    /\ \E vtype \in ChunkValueTypes, n \in 0..MaxChunk, m \in 0..MaxChunk,
          now \in ClockValues :
        \E lens \in ChunkLens(outlet, n), stamps \in SimpleStampSeqs(n, m),
           ecs \in ChunkCodes(n), build \in Builds(n) :
            Ran([op |-> "push_chunk_stamped", vtype |-> vtype, lens |-> lens,
                 timestamps |-> stamps, pushthrough |-> TRUE, now |-> now, ecs |-> ecs,
                 build |-> build],
                push_chunk_stamped(Start(lastStamp), outlet, vtype, lens, stamps,
                                   now, ecs, build))

SimpleNext == PushSample \/ PushChunk \/ PushChunkStamped \/ PushReturn

\* the state before the first step: nothing else of the library is in use
PushStart == PushInit /\ PullOff /\ InfoOff /\ DataOff /\ RestOff

SpecPush == PushStart /\ [][PushNext]_vars

(***************************************************************************)
(* Claims about the push operations (checked under SpecPush).              *)
(***************************************************************************)
\* the number of samples of the operation's chunk
ChunkN == Len(call.lens)

\* C1: pushing a sample whose length differs from the outlet's channel count
\* panics, whatever the value type, and no native push is made for it: in
\* every operation, a push_sample_ex call for a sample of another length is
\* the operation's last, the operation panicked, and the native log holds no
\* call for that sample.
C1_LengthMismatchPanics ==
    \A i \in 1..Len(pushLog) :
        call.lens[pushLog[i].k + 1] # outlet.channel_count
        => /\ outcome = Panic
           /\ i = Len(pushLog)
           /\ \A j \in 1..Len(native) : native[j].k # pushLog[i].k

\* C1's case: a byte-slice sample that is too short was pushed, and panicked
C1_Witness ==
    /\ call.op = "push_sample_ex"
    /\ call.vtype = "bytes"
    /\ call.lens[1] < outlet.channel_count
    /\ outcome = Panic
    /\ native = <<>>

\* the final time stamp of the chunk: the one passed, or the clock's for 0.0
ChunkT == IF call.timestamps[1] = 0 THEN clockReads[1] ELSE call.timestamps[1]

\* C2: after push_chunk_ex of N >= 1 samples with final time stamp T returned
\* Ok, sample k was transmitted with the stamp T - (N-1-k)/R for a regular
\* rate R, and with T for the irregular rate.
C2_ChunkStamps ==
    (call.op = "push_chunk_ex" /\ outcome.tag = "Ok" /\ ChunkN >= 1)
    => /\ Len(native) = ChunkN
       /\ \A k \in 0..(ChunkN - 1) :
            native[k + 1].stamp =
                IF outlet.nominal_rate = IRREGULAR_RATE
                THEN ChunkT
                ELSE ChunkT - (ChunkN - 1 - k) * (TicksPerSec \div outlet.nominal_rate)

\* the flag the claim gives sample k of a chunk of n pushed with flag p
ExpectedFlag(p, k, n) ==
    IF k = 0 THEN p /\ (n = 1) ELSE IF k < n - 1 THEN FALSE ELSE p

\* C3: push_chunk_ex hands the samples to push_sample_ex in index order, each
\* once: the calls made are, at every end of the operation, the first ones
\* of the sequence 0, 1, .., N-1, all of it when the operation returns Ok;
\* the first sample goes with (flag and N = 1), a later one that is not the
\* last with false, the last with the caller's flag; so a sample pushed with
\* pushthrough = true is the chunk's last.
C3_ChunkOrderAndFlags ==
    call.op = "push_chunk_ex"
    => /\ Len(pushLog) <= ChunkN
       /\ (outcome.tag = "Ok" => Len(pushLog) = ChunkN)
       /\ \A i \in 1..Len(pushLog) :
            /\ pushLog[i].k = i - 1
            /\ pushLog[i].pushthrough = ExpectedFlag(call.pushthrough, i - 1, ChunkN)
            /\ (pushLog[i].pushthrough => i = ChunkN)

\* C3's case: a chunk of three samples was pushed through
C3_Witness ==
    /\ call.op = "push_chunk_ex"
    /\ ChunkN = 3
    /\ call.pushthrough
    /\ outcome.tag = "Ok"
    /\ Len(pushLog) = 3
    /\ pushLog[3].pushthrough

\* C4: push_chunk_stamped_ex panics before any push when samples and time
\* stamps differ in length; otherwise sample k is pushed with timestamps[k],
\* in index order, all but the last with pushthrough = false and the last
\* with the caller's flag (all N of them when the operation returns Ok).
C4_StampedChunk ==
    call.op = "push_chunk_stamped_ex"
    => IF ChunkN # Len(call.timestamps)
       THEN outcome = Panic /\ pushLog = <<>> /\ native = <<>>
       ELSE /\ Len(pushLog) <= ChunkN
            /\ (outcome.tag = "Ok" => Len(pushLog) = ChunkN)
            /\ \A i \in 1..Len(pushLog) :
                 /\ pushLog[i].k = i - 1
                 /\ pushLog[i].timestamp = call.timestamps[i]
                 /\ pushLog[i].pushthrough = (IF i = ChunkN THEN call.pushthrough ELSE FALSE)

\* C4's case: three samples with three different stamps were pushed through
C4_Witness ==
    /\ call.op = "push_chunk_stamped_ex"
    /\ call.timestamps = <<MaxStamp, 0, 1>>
    /\ call.pushthrough
    /\ outcome.tag = "Ok"
    /\ Len(pushLog) = 3

(***************************************************************************)
(* The pull operations of StreamInlet.                                     *)
(*                                                                         *)
(* A sample in the engine's queue is [data, ts]: one value per channel and *)
(* the sample's time stamp.  A channel's value is a number; pulled as a    *)
(* string or a byte vector it comes as the slice of bytes <<value>>.       *)
(***************************************************************************)
PullTypes == {"f32", "f64", "i64", "i32", "i16", "i8", "String", "bytes"}

\* impl Pullable<T> for StreamInlet
PullImpl(ptype) ==
    CASE ptype = "f32" -> [helper |-> "numeric", func |-> "lsl_pull_sample_f"]
      [] ptype = "f64" -> [helper |-> "numeric", func |-> "lsl_pull_sample_d"]
      [] ptype = "i64" -> [helper |-> "numeric", func |-> "lsl_pull_sample_l"]
      [] ptype = "i32" -> [helper |-> "numeric", func |-> "lsl_pull_sample_i"]
      [] ptype = "i16" -> [helper |-> "numeric", func |-> "lsl_pull_sample_s"]
      [] ptype = "i8" -> [helper |-> "numeric", func |-> "lsl_pull_sample_c"]
      [] ptype = "String" -> [helper |-> "blob", func |-> "from_utf8_lossy"]
      [] ptype = "bytes" -> [helper |-> "blob", func |-> "to_vec"]

\* the values a channel of the model carries (every one a valid byte of UTF-8)
Payloads == {1, 2}

\* the time stamps of the samples of the model
PullStamps == {1, MaxStamp}

\* the samples a stream of `n` channels carries
QueueSamples(n) == {[data |-> [i \in 1..n |-> v], ts |-> ts] : v \in Payloads, ts \in PullStamps}

\* the native pull, lsl_pull_sample_*(handle, .., timeout, ec): the possible
\* responses [ec, ts, data, taken].  The oldest sample if there is one; else
\* the lost error if the stream is lost; else, when the timeout runs out,
\* time stamp 0.0 and no error; and an internal error can happen at any time.
EnginePull(q, isLost, timeout) ==
    (IF q # <<>>
     THEN {[ec |-> 0, ts |-> Head(q).ts, data |-> Head(q).data, taken |-> TRUE]}
     ELSE IF isLost
          THEN {[ec |-> lsl_error_code_t_lsl_lost_error, ts |-> 0, data |-> <<>>,
                 taken |-> FALSE]}
          ELSE IF timeout # FOREVER
               THEN {[ec |-> 0, ts |-> 0, data |-> <<>>, taken |-> FALSE]}
               ELSE {})
    \cup {[ec |-> lsl_error_code_t_lsl_internal_error, ts |-> 0, data |-> <<>>,
           taken |-> FALSE]}

\* what the native pull leaves in a buffer of buf.len() elements
NativeFill(buf, r) == IF r.taken THEN [i \in 1..Len(buf) |-> r.data[i]] ELSE buf

\* buf.resize(n, T::from(0))
Resize(buf, n, fill) == [i \in 1..n |-> IF i <= Len(buf) THEN buf[i] ELSE fill]

\* fn safe_pull_numeric_buf(&self, func, buf, timeout) -> Result<f64>, with
\* the buffer as it is left
safe_pull_numeric_buf(inl, func, buf, timeout, r) ==
    LET buf1 == IF Len(buf) # inl.channel_count
                THEN Resize(buf, inl.channel_count, 0) ELSE buf
        res == ec_to_result(r.ec)
    IN  [buf |-> NativeFill(buf1, r),
         res |-> IF res.tag # "Ok" THEN res ELSE Ok(r.ts)]

\* safe_pull_numeric that leaves the zeroed vector in the result
safe_pull_numeric_keep(inl, func, timeout, r) ==
    LET result == [i \in 1..inl.channel_count |-> 0]
        b == safe_pull_numeric_buf(inl, func, result, timeout, r)
    IN  IF b.res.tag # "Ok" THEN b.res
        ELSE Ok([sample |-> b.buf, ts |-> b.res.val])

\* fn safe_pull_numeric(&self, func, timeout) -> Result<(Vec<T>, f64)>
safe_pull_numeric(inl, func, timeout, r) ==
    LET result == [i \in 1..inl.channel_count |-> 0]
        b == safe_pull_numeric_buf(inl, func, result, timeout, r)
    IN  IF b.res.tag # "Ok" THEN b.res
        ELSE Ok([sample |-> IF b.res.val = 0 THEN <<>> ELSE b.buf,
                 ts |-> b.res.val])

\* String::from_utf8_lossy(x).into_owned(): the characters of x, U+FFFD for
\* a byte that is not UTF-8 (a slice of the model is a single byte)
from_utf8_lossy(x) == [i \in 1..Len(x) |-> IF x[i] < 128 THEN x[i] ELSE 65533]

\* x.to_vec()
to_vec(x) == [i \in 1..Len(x) |-> x[i]]

\* mapper(slice)
Mapper(mapper, slice) ==
    IF mapper = "from_utf8_lossy" THEN from_utf8_lossy(slice) ELSE to_vec(slice)

\* fn safe_pull_blob(&self, mapper, timeout) -> Result<(Vec<T>, f64)>
safe_pull_blob(inl, mapper, timeout, r) ==
    LET res == ec_to_result(r.ec)
        ptrs == [k \in 1..inl.channel_count |-> IF r.taken THEN <<r.data[k]>> ELSE <<>>]
    IN  IF res.tag # "Ok" THEN res
        ELSE Ok([sample |-> IF r.ts # 0
                            THEN [k \in 1..Len(ptrs) |-> Mapper(mapper, ptrs[k])]
                            ELSE <<>>,
                 ts |-> r.ts])

\* fn pull_sample(&self, timeout: f64) -> Result<(Vec<T>, f64)>
pull_sample(inl, ptype, timeout, r) ==
    IF PullImpl(ptype).helper = "numeric"
    THEN safe_pull_numeric(inl, PullImpl(ptype).func, timeout, r)
    ELSE safe_pull_blob(inl, PullImpl(ptype).func, timeout, r)

\* the timeout pull_chunk polls with
PollTimeout == 0

\* one turn of a loop that would poll again after time stamp 0.0
pull_chunk_turn_again(fr, inl, ptype, r) ==
    LET p == pull_sample(inl, ptype, PollTimeout, r)
    IN  IF p.tag # "Ok" THEN [fr EXCEPT !.pc = "done", !.res = p]
        ELSE IF p.val.ts # 0
             THEN [fr EXCEPT !.samples = Append(@, p.val.sample),
                             !.stamps = Append(@, p.val.ts)]
             ELSE fr

\* one turn of pull_chunk's loop that returns what it has at the first sample
pull_chunk_turn_once(fr, inl, ptype, r) ==
    LET p == pull_sample(inl, ptype, PollTimeout, r)
    IN  IF p.tag # "Ok" THEN [fr EXCEPT !.pc = "done", !.res = p]
        ELSE [fr EXCEPT !.pc = "done",
                        !.res = Ok([samples |-> fr.samples, stamps |-> fr.stamps])]

\* one turn of the loop of fn pull_chunk(&self): fr is [samples, stamps, pc,
\* res], r the response of the native pull of this turn
pull_chunk_turn(fr, inl, ptype, r) ==
    LET p == pull_sample(inl, ptype, PollTimeout, r)
    IN  IF p.tag # "Ok" THEN [fr EXCEPT !.pc = "done", !.res = p]
        ELSE IF p.val.ts # 0
             THEN [fr EXCEPT !.samples = Append(@, p.val.sample),
                             !.stamps = Append(@, p.val.ts)]
             ELSE [fr EXCEPT !.pc = "done",
                             !.res = Ok([samples |-> fr.samples, stamps |-> fr.stamps])]

(***************************************************************************)
(* The inputs and the steps of the pull operations.                        *)
(***************************************************************************)
PullTimeouts == {0, 1, FOREVER}

PullChunkTypes == {"i32", "String"}

PullInit ==
    /\ inlet \in [channel_count : 0..MaxChan]
    /\ queue = <<>>
    /\ lost = FALSE
    /\ pull = PullIdle
    /\ pending0 = <<>>
    /\ arrived = <<>>
    /\ pulled = NoResult

\* the queue after the native pull answered r
Taken(r) == IF r.taken THEN Tail(queue) ELSE queue

\* the engine receives a sample of the stream (this model follows an
\* operation through at most MaxQueue samples)
Deliver ==
    /\ ~lost
    /\ pull.pc # "done"
    /\ Len(queue) + Len(pull.samples) < MaxQueue
    /\ \E s \in QueueSamples(inlet.channel_count) :
        /\ queue' = Append(queue, s)
        /\ arrived' = IF pull.pc = "loop" THEN Append(arrived, s) ELSE arrived
    /\ UNCHANGED <<inlet, lost, pull, pending0, pulled, notPull>>

\* the stream's source goes away
Lose ==
    /\ ~lost
    /\ pull.pc # "done"
    /\ lost' = TRUE
    /\ UNCHANGED <<inlet, queue, pull, pending0, arrived, pulled, notPull>>

\* inlet.pull_sample::<T>(timeout), start to end
PullSample ==
    /\ pull.pc = "idle"
    /\ \E ptype \in PullTypes, timeout \in PullTimeouts :
        \E r \in EnginePull(queue, lost, timeout) :
            /\ pull' = [PullIdle EXCEPT !.op = "pull_sample", !.ptype = ptype,
                                        !.pc = "done", !.timeout = timeout,
                                        !.polls = 1, !.resp = r]
            /\ pulled' = pull_sample(inlet, ptype, timeout, r)
            /\ queue' = Taken(r)
            /\ pending0' = queue
    /\ UNCHANGED <<inlet, lost, arrived, notPull>>

\* inlet.pull_chunk::<T>() begins
PullChunk ==
    /\ pull.pc = "idle"
    /\ \E ptype \in PullChunkTypes :
        pull' = [PullIdle EXCEPT !.op = "pull_chunk", !.ptype = ptype, !.pc = "loop"]
    /\ pending0' = queue
    /\ UNCHANGED <<inlet, queue, lost, arrived, pulled, notPull>>

\* one turn of pull_chunk's loop
PullChunkTurn ==
    /\ pull.pc = "loop"
    /\ \E r \in EnginePull(queue, lost, PollTimeout) :
        LET fr == pull_chunk_turn([samples |-> pull.samples, stamps |-> pull.stamps,
                                   pc |-> pull.pc, res |-> NoResult],
                                  inlet, pull.ptype, r)
        IN  /\ pull' = [pull EXCEPT !.samples = fr.samples, !.stamps = fr.stamps,
                                    !.pc = fr.pc, !.polls = @ + 1, !.resp = r]
            /\ pulled' = fr.res
            /\ queue' = Taken(r)
    /\ UNCHANGED <<inlet, lost, pending0, arrived, notPull>>

\* the caller goes on after a pull operation returned
PullReturn ==
    /\ pull.pc = "done"
    /\ pull' = PullIdle
    /\ pending0' = <<>>
    /\ arrived' = <<>>
    /\ pulled' = NoResult
    /\ UNCHANGED <<inlet, queue, lost, notPull>>

PullNext == Deliver \/ Lose \/ PullSample \/ PullChunk \/ PullChunkTurn \/ PullReturn

\* the state before the first step: nothing else of the library is in use
PullStart == PullInit /\ PushOff /\ InfoOff /\ DataOff /\ RestOff

SpecPull == PullStart /\ [][PullNext]_vars

(***************************************************************************)
(* Claims about the pull operations (checked under SpecPull).              *)
(***************************************************************************)

\* C5: pull_sample does not report "no new data within the timeout" as an
\* error: with nothing in the queue and no failure of the engine it returns
\* Ok with an empty sample and time stamp 0.0 (never Error::Timeout); and
\* every Ok result of pull_sample is either (empty, 0.0) or (a vector of
\* exactly channel_count values, a non-zero time stamp), for the numeric and
\* for the string / byte-vector value types alike.
C5_NoDataIsNotAnError ==
    (pull.op = "pull_sample" /\ pull.pc = "done") =>
        /\ (pending0 = <<>> /\ pull.resp.ec = 0) =>
               (pulled.tag = "Ok" /\ pulled.val.sample = <<>> /\ pulled.val.ts = 0)
        /\ pulled.tag = "Ok" =>
               \/ pulled.val.sample = <<>> /\ pulled.val.ts = 0
               \/ Len(pulled.val.sample) = inlet.channel_count /\ pulled.val.ts # 0
        /\ pulled.err # "Timeout"

\* a numeric pull_sample with a timeout, on a one-channel inlet with nothing
\* to pull, returned (empty, 0.0)
C5_Witness ==
    /\ pull.op = "pull_sample"
    /\ pull.ptype = "i16"
    /\ pull.timeout = 1
    /\ inlet.channel_count = 1
    /\ pending0 = <<>>
    /\ pulled.tag = "Ok"
    /\ pulled.val.sample = <<>>
    /\ pulled.val.ts = 0

\* the samples offered to a pull_chunk call: those pending when it began,
\* then those the engine received while it ran
Offered == pending0 \o arrived

\* the channel values a pulled sample stands for
Payload(ptype, sample) ==
    [k \in 1..Len(sample) |->
        IF PullImpl(ptype).helper = "blob" THEN sample[k][1] ELSE sample[k]]

\* C6: a pull_chunk that returns Ok returns two empty sequences when no
\* sample was pending, and otherwise exactly the M samples pushed and not
\* yet pulled, in push order, with M time stamps, theirs, all non-zero.
C6_ChunkIsAllPending ==
    (pull.op = "pull_chunk" /\ pulled.tag = "Ok") =>
        /\ Len(pulled.val.samples) = Len(Offered)
        /\ Len(pulled.val.stamps) = Len(Offered)
        /\ \A i \in 1..Len(Offered) :
            /\ Payload(pull.ptype, pulled.val.samples[i]) = Offered[i].data
            /\ pulled.val.stamps[i] = Offered[i].ts
            /\ pulled.val.stamps[i] # 0
        /\ Offered = <<>> => (pulled.val.samples = <<>> /\ pulled.val.stamps = <<>>)

\* a pull_chunk of strings returned two different pending samples
C6_Witness ==
    /\ pull.op = "pull_chunk"
    /\ pull.ptype = "String"
    /\ inlet.channel_count = 1
    /\ Len(pending0) = 2
    /\ pending0[1] # pending0[2]
    /\ arrived = <<>>
    /\ pulled.tag = "Ok"
    /\ Len(pulled.val.samples) = 2
    /\ pull.polls = 3

(***************************************************************************)
(* The shared ownership of the native StreamInfo object.                   *)
(*                                                                         *)
(* A StreamInfo holds an Rc<StreamInfoHandle>; an XMLElement holds a       *)
(* cursor into the description tree and a clone of that Rc (doc).  The     *)
(* heap has, per native handle, the strong count of its Rc and the number  *)
(* of lsl_destroy_streaminfo calls made on it; misuse records a native     *)
(* call made on a handle that was destroyed before.                        *)
(***************************************************************************)

\* a native call that works on handle h
NativeUse(m, h) == [m EXCEPT !.misuse = @ \/ (m.destroyed[h] > 0)]

\* rc::Rc::new(StreamInfoHandle { handle }) on a handle the engine made
rc_new(m) == [m EXCEPT !.created = @ + 1, !.strong[m.created + 1] = 1]

\* Rc::clone
rc_clone(m, h) == [m EXCEPT !.strong[h] = @ + 1]

\* the drop of an Rc<StreamInfoHandle>: the last one drops the
\* StreamInfoHandle, whose Drop calls lsl_destroy_streaminfo (the native
\* object is gone, and its tree with it)
rc_drop(m, h) ==
    IF m.strong[h] <= 1
    THEN [m EXCEPT !.strong[h] = 0, !.destroyed[h] = @ + 1, !.edited[h] = FALSE]
    ELSE [m EXCEPT !.strong[h] = @ - 1]

\* the drop of a StreamInfo or of an XMLElement
drop_obj(m, o) == rc_drop(m, o.handle)

\* StreamInfo::new / from_handle with a handle that is not null
info_new(m) ==
    [heap |-> rc_new(m),
     obj |-> [kind |-> "StreamInfo", handle |-> m.created + 1, cursor |-> "null"]]

\* a clone that is an Rc::clone of the handle: no native copy
info_clone_shared(m, o) == [heap |-> rc_clone(NativeUse(m, o.handle), o.handle), obj |-> o]

\* impl Clone for StreamInfo: lsl_copy_streaminfo, then an Rc of its own
info_clone(m, o) == info_new(NativeUse(m, o.handle))

\* a desc() whose XMLElement takes the handle without a count of its own
desc_borrowed(m, o) ==
    [heap |-> NativeUse(m, o.handle),
     obj |-> [kind |-> "XMLElement", handle |-> o.handle, cursor |-> "node"]]

\* pub fn desc(&mut self) -> XMLElement
desc(m, o) ==
    [heap |-> rc_clone(NativeUse(m, o.handle), o.handle),
     obj |-> [kind |-> "XMLElement", handle |-> o.handle, cursor |-> "node"]]

\* first_child, last_child, next_sibling, previous_sibling, parent, child,
\* .., append_child, prepend_child, ..: a native call on self.cursor, and an
\* XMLElement of the node it returns (null if there is none, and always for
\* a null cursor) with a clone of self.doc
navigate(m, o, found) ==
    [heap |-> rc_clone(NativeUse(m, o.handle), o.handle),
     obj |-> [kind |-> "XMLElement", handle |-> o.handle,
              cursor |-> IF o.cursor = "null" \/ ~found THEN "null" ELSE "node"]]

\* the engine edits the tree that the cursor of o points into (nothing for
\* a null cursor)
tree_edit(m, o) == IF o.cursor = "null" THEN m ELSE [m EXCEPT !.edited[o.handle] = TRUE]

\* append_child, prepend_child, append_child_value, prepend_child_value: a
\* native call on self.cursor that adds an element, and an XMLElement with a
\* clone of self.doc
insert_child(m, o) ==
    [heap |-> tree_edit(rc_clone(NativeUse(m, o.handle), o.handle), o),
     obj |-> [kind |-> "XMLElement", handle |-> o.handle, cursor |-> o.cursor]]

\* set_name, set_value, set_child_value, remove_child_named: a native call
\* on self.cursor that edits the tree
cursor_edit(m, o) == tree_edit(NativeUse(m, o.handle), o)

\* #[derive(Clone)] for XMLElement
cursor_clone(m, o) == [heap |-> rc_clone(m, o.handle), obj |-> o]

\* name, value, set_name, set_value, ..: a native call on self.cursor
cursor_op(m, o) == NativeUse(m, o.handle)

\* append_copy(&mut self, e: XMLElement), prepend_copy: a native call on both
\* cursors, an XMLElement with a clone of self.doc, and e dropped on return
append_copy(m, o, e) ==
    LET m1 == NativeUse(NativeUse(m, o.handle), e.handle)
        m2 == rc_clone(m1, o.handle)
    IN  [heap |-> drop_obj(IF e.cursor = "null" THEN m2 ELSE tree_edit(m2, o), e),
         obj |-> [kind |-> "XMLElement", handle |-> o.handle,
                  cursor |-> IF o.cursor = "null" \/ e.cursor = "null"
                             THEN "null" ELSE "node"]]

\* remove_child(&mut self, e: XMLElement): a native call on both cursors, and
\* e dropped on return
remove_child(m, o, e) ==
    LET m1 == NativeUse(NativeUse(m, o.handle), e.handle)
    IN  drop_obj(IF e.cursor = "null" \/ e.handle # o.handle THEN m1 ELSE tree_edit(m1, o), e)

(***************************************************************************)
(* The steps of a program that holds StreamInfo and XMLElement values in   *)
(* MaxObjs places.                                                         *)
(***************************************************************************)
Places == 1..MaxObjs

Infos == {o \in Places : objs[o].kind = "StreamInfo"}

Cursors == {o \in Places : objs[o].kind = "XMLElement"}

Free == {o \in Places : objs[o].kind = "none"}

\* a new value goes to the first free place; `edit` is the handle of the
\* cursor that an editing operation was called on (0: not an edit)
Put(r, op, edit) ==
    /\ Free # {}
    /\ LET f == CHOOSE o \in Free : \A o2 \in Free : o <= o2
       IN  objs' = [objs EXCEPT ![f] = r.obj]
    /\ heap' = r.heap
    /\ lastOp' = [op |-> op, kind |-> r.obj.kind, handle |-> r.obj.handle,
                  released |-> FALSE, edit |-> edit]
    /\ UNCHANGED notInfo

InfoInit ==
    /\ heap = EmptyHeap
    /\ objs = [o \in Places |-> NoObj]
    /\ lastOp = NoOp

InfoNew ==
    /\ heap.created < MaxHandles
    /\ Put(info_new(heap), "new", 0)

InfoClone ==
    /\ heap.created < MaxHandles
    /\ \E i \in Infos : Put(info_clone(heap, objs[i]), "clone", 0)

Desc == \E i \in Infos : Put(desc(heap, objs[i]), "desc", 0)

Navigate == \E c \in Cursors, found \in BOOLEAN : Put(navigate(heap, objs[c], found), "navigate", 0)

InsertChild == \E c \in Cursors : Put(insert_child(heap, objs[c]), "insert_child", objs[c].handle)

CursorClone == \E c \in Cursors : Put(cursor_clone(heap, objs[c]), "cursor_clone", 0)

CursorOp ==
    /\ \E c \in Cursors :
        /\ heap' = cursor_op(heap, objs[c])
        /\ lastOp' = [op |-> "cursor_op", kind |-> "XMLElement",
                      handle |-> objs[c].handle, released |-> FALSE, edit |-> 0]
    /\ UNCHANGED <<objs, notInfo>>

CursorEdit ==
    /\ \E c \in Cursors :
        /\ heap' = cursor_edit(heap, objs[c])
        /\ lastOp' = [op |-> "cursor_edit", kind |-> "XMLElement",
                      handle |-> objs[c].handle, released |-> FALSE,
                      edit |-> objs[c].handle]
    /\ UNCHANGED <<objs, notInfo>>

\* e is moved into the call: its place is free for the XMLElement returned
AppendCopy ==
    /\ \E c \in Cursors, e \in Cursors :
        /\ c # e
        /\ LET r == append_copy(heap, objs[c], objs[e])
           IN  /\ heap' = r.heap
               /\ objs' = [objs EXCEPT ![e] = r.obj]
               /\ lastOp' = [op |-> "append_copy", kind |-> "XMLElement",
                             handle |-> objs[e].handle,
                             released |-> r.heap.destroyed[objs[e].handle]
                                            > heap.destroyed[objs[e].handle],
                             edit |-> objs[c].handle]
    /\ UNCHANGED notInfo

RemoveChild ==
    /\ \E c \in Cursors, e \in Cursors :
        /\ c # e
        /\ heap' = remove_child(heap, objs[c], objs[e])
        /\ objs' = [objs EXCEPT ![e] = NoObj]
        /\ lastOp' = [op |-> "remove_child", kind |-> "XMLElement",
                      handle |-> objs[e].handle,
                      released |-> heap'.destroyed[objs[e].handle]
                                     > heap.destroyed[objs[e].handle],
                      edit |-> objs[c].handle]
    /\ UNCHANGED notInfo

\* a StreamInfo or an XMLElement goes out of scope
DropObj ==
    /\ \E o \in Infos \cup Cursors :
        /\ heap' = drop_obj(heap, objs[o])
        /\ objs' = [objs EXCEPT ![o] = NoObj]
        /\ lastOp' = [op |-> "drop", kind |-> objs[o].kind, handle |-> objs[o].handle,
                      released |-> heap'.destroyed[objs[o].handle]
                                     > heap.destroyed[objs[o].handle],
                      edit |-> 0]
    /\ UNCHANGED notInfo

InfoNext ==
    \/ InfoNew \/ InfoClone \/ Desc \/ Navigate \/ CursorClone \/ CursorOp
    \/ AppendCopy \/ RemoveChild \/ DropObj

\* the state before the first step: nothing else of the library is in use
InfoStart == InfoInit /\ PushOff /\ PullOff /\ DataOff /\ RestOff

SpecInfo == InfoStart /\ [][InfoNext]_vars

(***************************************************************************)
(* Claims about the ownership of the native StreamInfo (under SpecInfo).   *)
(***************************************************************************)

\* the StreamInfo and XMLElement values alive that own handle h
Owners(h) == {o \in Places : objs[o].kind # "none" /\ objs[o].handle = h}

\* C7: the native StreamInfo object is released exactly once, and only when
\* its last owner (the StreamInfo, or an XMLElement got from it by desc(),
\* navigation or clone) is dropped: no release while an owner is alive, no
\* second release, a release as soon as no owner is left, and no native call
\* of a cursor on a released object.
C7_ReleasedOnceByLastOwner ==
    /\ ~heap.misuse
    /\ \A h \in 1..MaxHandles :
        /\ heap.destroyed[h] <= 1
        /\ Owners(h) # {} => heap.destroyed[h] = 0
        /\ (h <= heap.created /\ Owners(h) = {}) => heap.destroyed[h] = 1
        /\ heap.strong[h] = Cardinality(Owners(h))

\* an XMLElement outlived the StreamInfo of handle 1 and was its last owner:
\* its drop released the object
C7_Witness ==
    /\ lastOp = [op |-> "drop", kind |-> "XMLElement", handle |-> 1, released |-> TRUE,
                 edit |-> 0]
    /\ Owners(1) = {}
    /\ heap.destroyed[1] = 1
    /\ heap.created = 1

\* the steps of a program that edits the description trees of StreamInfo
\* values and of their clones through cursors
CloneNext ==
    \/ InfoNew \/ InfoClone \/ Desc \/ InsertChild \/ CursorEdit \/ AppendCopy
    \/ DropObj

SpecClone == InfoStart /\ [][CloneNext]_vars

\* C11: a clone of a StreamInfo is a copy of its own. No two StreamInfo
\* values share a native object; a step edits the description tree only of
\* the native object whose cursor the edit was called on (the tree of no
\* other object that stays alive changes), and releases only the native
\* object of the value that was dropped; the native object of a value that
\* is alive is not released, and no native call is made on a released object.
C11_CloneIsIndependent ==
    [][/\ \A a, b \in Infos' : a # b => objs'[a].handle # objs'[b].handle
       /\ \A h \in 1..MaxHandles :
            /\ (heap'.edited[h] # heap.edited[h] /\ heap'.destroyed[h] = heap.destroyed[h])
                   => lastOp'.edit = h
            /\ heap'.destroyed[h] # heap.destroyed[h] =>
                   (lastOp'.handle = h /\ lastOp'.released)
            /\ Owners(h)' # {} => heap'.destroyed[h] = 0
       /\ ~heap'.misuse]_vars

\* the StreamInfo of handle 1 was dropped, and its native object released,
\* after its clone (handle 2) was edited through a cursor: the clone is
\* alive with the edited tree, the tree of handle 1 was never edited
C11_Witness ==
    /\ lastOp = [op |-> "drop", kind |-> "StreamInfo", handle |-> 1, released |-> TRUE,
                 edit |-> 0]
    /\ heap.destroyed = <<1, 0>>
    /\ heap.edited = <<FALSE, TRUE>>
    /\ \E i \in Infos : objs[i].handle = 2

(***************************************************************************)
(* The data of a StreamInfo: construction, the accessors of the core       *)
(* fields, the description tree, clone, and XML.                           *)
(*                                                                         *)
(* A Rust string (&str, String) is a sequence of code points; a C string   *)
(* is a sequence of bytes that ends with the byte 0.  The engine keeps     *)
(* strings as bytes.  A u32 is [hi, lo]: bit 31 and the lower 31 bits.     *)
(***************************************************************************)
ChannelFormats ==
    {"Float32", "Double64", "String", "Int32", "Int16", "Int8", "Int64", "Undefined"}

lsl_channel_format_t_cft_undefined == 0
lsl_channel_format_t_cft_float32 == 1
lsl_channel_format_t_cft_double64 == 2
lsl_channel_format_t_cft_string == 3
lsl_channel_format_t_cft_int32 == 4
lsl_channel_format_t_cft_int16 == 5
lsl_channel_format_t_cft_int8 == 6
lsl_channel_format_t_cft_int64 == 7

\* a to_native that takes Int16 and Int8 for one another
to_native_swapped(f) ==
    CASE f = "Float32" -> lsl_channel_format_t_cft_float32
      [] f = "Double64" -> lsl_channel_format_t_cft_double64
      [] f = "String" -> lsl_channel_format_t_cft_string
      [] f = "Int32" -> lsl_channel_format_t_cft_int32
      [] f = "Int16" -> lsl_channel_format_t_cft_int8
      [] f = "Int8" -> lsl_channel_format_t_cft_int16
      [] f = "Int64" -> lsl_channel_format_t_cft_int64
      [] f = "Undefined" -> lsl_channel_format_t_cft_undefined

\* pub fn to_native(&self) -> lsl_channel_format_t
to_native(f) ==
    CASE f = "Float32" -> lsl_channel_format_t_cft_float32
      [] f = "Double64" -> lsl_channel_format_t_cft_double64
      [] f = "String" -> lsl_channel_format_t_cft_string
      [] f = "Int32" -> lsl_channel_format_t_cft_int32
      [] f = "Int16" -> lsl_channel_format_t_cft_int16
      [] f = "Int8" -> lsl_channel_format_t_cft_int8
      [] f = "Int64" -> lsl_channel_format_t_cft_int64
      [] f = "Undefined" -> lsl_channel_format_t_cft_undefined

\* a from_native without the arm of cft_int64
from_native_no_int64(fmt) ==
    CASE fmt = lsl_channel_format_t_cft_float32 -> "Float32"
      [] fmt = lsl_channel_format_t_cft_double64 -> "Double64"
      [] fmt = lsl_channel_format_t_cft_string -> "String"
      [] fmt = lsl_channel_format_t_cft_int32 -> "Int32"
      [] fmt = lsl_channel_format_t_cft_int16 -> "Int16"
      [] fmt = lsl_channel_format_t_cft_int8 -> "Int8"
      [] OTHER -> "Undefined"

\* pub fn from_native(fmt: lsl_channel_format_t) -> ChannelFormat
from_native(fmt) ==
    CASE fmt = lsl_channel_format_t_cft_float32 -> "Float32"
      [] fmt = lsl_channel_format_t_cft_double64 -> "Double64"
      [] fmt = lsl_channel_format_t_cft_string -> "String"
      [] fmt = lsl_channel_format_t_cft_int32 -> "Int32"
      [] fmt = lsl_channel_format_t_cft_int16 -> "Int16"
      [] fmt = lsl_channel_format_t_cft_int8 -> "Int8"
      [] fmt = lsl_channel_format_t_cft_int64 -> "Int64"
      [] OTHER -> "Undefined"

\* the UTF-8 bytes of a code point of the basic plane: one to three bytes
Utf8Char(c) ==
    IF c < 128 THEN <<c>>
    ELSE IF c < 2048 THEN <<192 + (c \div 64), 128 + (c % 64)>>
    ELSE <<224 + (c \div 4096), 128 + ((c \div 64) % 64), 128 + (c % 64)>>

\* F(v), with v evaluated once whatever the number of times F uses it
Once(v, F(_)) == CHOOSE r \in {F(x) : x \in {v}} : TRUE

RECURSIVE Flatten(_)
\* the sequences of a sequence, joined
Flatten(seqs) ==
    Once(seqs, LAMBDA q :
        IF q = <<>> THEN <<>>
        ELSE IF Len(q) = 1 THEN q[1]
        ELSE Flatten(SubSeq(q, 1, Len(q) \div 2))
             \o Flatten(SubSeq(q, (Len(q) \div 2) + 1, Len(q))))

\* the positions 1 .. n that satisfy Keep, in order
Positions(n, Keep(_)) == SelectSeq([i \in 1..n |-> i], Keep)

\* the UTF-8 bytes of a Rust string
Utf8(s) == Flatten([i \in 1..Len(s) |-> Utf8Char(s[i])])

\* ffi::CString::new(s): the bytes of s and the terminator, or a NulError
CString_new(s) ==
    Once(s, LAMBDA str :
        IF \E i \in 1..Len(str) : str[i] = 0 THEN Err("NulError")
        ELSE Ok(Utf8(str) \o <<0>>))

\* impl From<ffi::NulError> for Error, as the ? operator applies it
From_NulError(r) == IF r.tag = "Err" /\ r.err = "NulError" THEN Err("BadArgument") ELSE r

\* a conversion that would cut the string at its first null byte
make_cstring_cut(s) == CString_new(SelectSeq(s, LAMBDA c : c # 0))

\* fn make_cstring(s: &str) -> ffi::CString
make_cstring(s) == IF CString_new(s).tag = "Err" THEN Panic ELSE CString_new(s)

\* ffi::CStr::from_ptr(p): the bytes before the first 0
CStr_from_ptr(p) ==
    Once(p, LAMBDA c :
        Once({i \in 1..Len(c) : c[i] = 0}, LAMBDA zeros :
            IF zeros = {} THEN c
            ELSE SubSeq(c, 1, (CHOOSE i \in zeros : \A j \in zeros : i <= j) - 1)))

\* CStr::to_string_lossy: the code points the bytes encode, U+FFFD for a byte
\* that is not part of a UTF-8 sequence (sequences of one and two bytes: a
\* byte of 194 .. 223 and after it a byte of 128 .. 191)
to_string_lossy(b) ==
    Once(b, LAMBDA c :
        LET Second(i) == i > 1 /\ c[i] \in 128..191 /\ c[i - 1] \in 194..223
            First(i) == ~Second(i)
        IN  Once(Positions(Len(c), First), LAMBDA at :
                [k \in 1..Len(at) |->
                    IF c[at[k]] < 128 THEN c[at[k]]
                    ELSE IF at[k] < Len(c) /\ Second(at[k] + 1)
                         THEN (c[at[k]] - 192) * 64 + (c[at[k] + 1] - 128)
                         ELSE 65533]))

\* the null pointer
NULL == <<-1>>

\* unsafe fn make_string(s: *const c_char) -> String
make_string(s) == IF s = NULL THEN Panic ELSE Ok(to_string_lossy(CStr_from_ptr(s)))

\* channel_count >= 0x80000000
AtLeast_0x80000000(n) == n.hi = 1

\* channel_count as i32
as_i32(n) == IF n.hi = 0 THEN n.lo ELSE (n.lo - 2147483647) - 1

\* the null handle of a streaminfo
NULL_HANDLE == [null |-> TRUE]

\* the element "desc" without children
EmptyDesc == [name |-> <<100, 101, 115, 99>>, text |-> <<>>, kids |-> <<>>]

\* the engine's lsl_create_streaminfo: null if it fails (`ok` is false), else
\* an object that has the arguments, the C strings copied, and no description.
\* `origin` is not a field of the object: it tells the objects that come of
\* lsl_create_streaminfo from those that come of lsl_streaminfo_from_xml
lsl_create_streaminfo(name, type, channel_count, nominal_srate, channel_format, source_id, ok) ==
    IF ~ok THEN NULL_HANDLE
    ELSE [null |-> FALSE, name |-> CStr_from_ptr(name), type |-> CStr_from_ptr(type),
          channel_count |-> channel_count, nominal_srate |-> nominal_srate,
          channel_format |-> channel_format, source_id |-> CStr_from_ptr(source_id),
          desc |-> EmptyDesc, origin |-> "lsl_create_streaminfo"]

\* a StreamInfo::new that lets an empty name through
new_any_name(stream_name, stream_type, channel_count, nominal_srate, channel_format, source_id, ok) ==
    IF nominal_srate < 0 \/ AtLeast_0x80000000(channel_count)
    THEN [res |-> Err("BadArgument"), made |-> <<>>]
    ELSE IF CString_new(stream_name).tag = "Err"
    THEN [res |-> From_NulError(CString_new(stream_name)), made |-> <<>>]
    ELSE IF CString_new(stream_type).tag = "Err"
    THEN [res |-> From_NulError(CString_new(stream_type)), made |-> <<>>]
    ELSE IF CString_new(source_id).tag = "Err"
    THEN [res |-> From_NulError(CString_new(source_id)), made |-> <<>>]
    ELSE LET handle == lsl_create_streaminfo(
                           CString_new(stream_name).val, CString_new(stream_type).val,
                           as_i32(channel_count), nominal_srate,
                           to_native(channel_format), CString_new(source_id).val, ok)
         IN  IF handle.null
             THEN [res |-> Err("ResourceCreation"), made |-> <<>>]
             ELSE [res |-> Ok(1), made |-> <<handle>>]

\* pub fn new(stream_name, stream_type, channel_count, nominal_srate,
\* channel_format, source_id) -> Result<StreamInfo>: the result, and the
\* native objects made
new(stream_name, stream_type, channel_count, nominal_srate, channel_format, source_id, ok) ==
    IF stream_name = <<>> \/ nominal_srate < 0 \/ AtLeast_0x80000000(channel_count)
    THEN [res |-> Err("BadArgument"), made |-> <<>>]
    ELSE IF CString_new(stream_name).tag = "Err"
    THEN [res |-> From_NulError(CString_new(stream_name)), made |-> <<>>]
    ELSE IF CString_new(stream_type).tag = "Err"
    THEN [res |-> From_NulError(CString_new(stream_type)), made |-> <<>>]
    ELSE IF CString_new(source_id).tag = "Err"
    THEN [res |-> From_NulError(CString_new(source_id)), made |-> <<>>]
    ELSE LET handle == lsl_create_streaminfo(
                           CString_new(stream_name).val, CString_new(stream_type).val,
                           as_i32(channel_count), nominal_srate,
                           to_native(channel_format), CString_new(source_id).val, ok)
         IN  IF handle.null
             THEN [res |-> Err("ResourceCreation"), made |-> <<>>]
             ELSE [res |-> Ok(1), made |-> <<handle>>]

\* the engine's getters of a string: a pointer to the C string it keeps
c_str(bytes) == bytes \o <<0>>

\* pub fn stream_name(&self) -> String
stream_name(n) == make_string(c_str(n.name))

\* pub fn stream_type(&self) -> String
stream_type(n) == make_string(c_str(n.type))

\* pub fn channel_count(&self) -> i32
channel_count(n) == n.channel_count

\* pub fn nominal_srate(&self) -> f64
nominal_srate(n) == n.nominal_srate

\* pub fn channel_format(&self) -> ChannelFormat
channel_format(n) == from_native(n.channel_format)

\* pub fn source_id(&self) -> String
source_id(n) == make_string(c_str(n.source_id))

\* impl Clone for StreamInfo: lsl_copy_streaminfo makes a copy of the object
\* (the copy has the origin of the object it is a copy of)
clone(n) == n

(***************************************************************************)
(* The description tree.  A node is [name, text, kids]: the element's      *)
(* name, its text (child_value), and its child elements in order.  A       *)
(* cursor is the path from the element "desc": the indices of the children *)
(* to go through.                                                          *)
(***************************************************************************)
RECURSIVE NodeAt(_, _)
NodeAt(t, path) == IF path = <<>> THEN t ELSE NodeAt(t.kids[Head(path)], Tail(path))

RECURSIVE ReplaceAt(_, _, _)
ReplaceAt(t, path, node) ==
    IF path = <<>> THEN node
    ELSE [t EXCEPT !.kids[Head(path)] = ReplaceAt(t.kids[Head(path)], Tail(path), node)]

RECURSIVE Paths(_)
Paths(t) ==
    {<<>>} \cup UNION {{<<i>> \o q : q \in Paths(t.kids[i])} : i \in 1..Len(t.kids)}

\* the elements below t
NodeCount(t) == Cardinality(Paths(t)) - 1

\* the engine's lsl_append_child / lsl_append_child_value at a cursor
XmlAppend(t, path, node) ==
    ReplaceAt(t, path, [NodeAt(t, path) EXCEPT !.kids = Append(@, node)])

\* the engine's lsl_prepend_child / lsl_prepend_child_value at a cursor
XmlPrepend(t, path, node) ==
    ReplaceAt(t, path, [NodeAt(t, path) EXCEPT !.kids = <<node>> \o @])

\* the engine's lsl_remove_child_n: the first child of that name goes
XmlRemoveNamed(t, path, name) ==
    LET kids == NodeAt(t, path).kids
        hits == {i \in 1..Len(kids) : kids[i].name = name}
    IN  IF hits = {} THEN t
        ELSE LET f == CHOOSE i \in hits : \A j \in hits : i <= j
             IN  ReplaceAt(t, path,
                    [NodeAt(t, path) EXCEPT
                        !.kids = SubSeq(kids, 1, f - 1) \o SubSeq(kids, f + 1, Len(kids))])

\* pub fn append_child(&mut self, name: &str) -> XMLElement
append_child(t, path, name) ==
    IF make_cstring(name).tag = "panic" THEN [res |-> Panic, tree |-> t]
    ELSE [res |-> Ok(0),
          tree |-> XmlAppend(t, path, [name |-> CStr_from_ptr(make_cstring(name).val),
                                       text |-> <<>>, kids |-> <<>>])]

\* pub fn prepend_child_value(&mut self, name: &str, value: &str) -> XMLElement
prepend_child_value(t, path, name, value) ==
    IF make_cstring(name).tag = "panic" \/ make_cstring(value).tag = "panic"
    THEN [res |-> Panic, tree |-> t]
    ELSE [res |-> Ok(0),
          tree |-> XmlPrepend(t, path, [name |-> CStr_from_ptr(make_cstring(name).val),
                                        text |-> CStr_from_ptr(make_cstring(value).val),
                                        kids |-> <<>>])]

\* pub fn remove_child_named(&mut self, name: &str)
remove_child_named(t, path, name) ==
    IF make_cstring(name).tag = "panic" THEN [res |-> Panic, tree |-> t]
    ELSE [res |-> Ok(0),
          tree |-> XmlRemoveNamed(t, path, CStr_from_ptr(make_cstring(name).val))]

(***************************************************************************)
(* The XML form of a StreamInfo.  The document is the element "info" with  *)
(* the elements of the core fields and the description tree "desc", in     *)
(* bytes, without white space between the elements; an element without     *)
(* content is written <name />, and in text the characters < > & are       *)
(* written as entities.                                                    *)
(***************************************************************************)
\* b has the bytes pre from position i on
StartsWith(b, i, pre) ==
    i + Len(pre) - 1 <= Len(b) /\ SubSeq(b, i, i + Len(pre) - 1) = pre

\* the entities of the characters < > &
Entities ==
    <<[ch |-> 60, as |-> <<38, 108, 116, 59>>], [ch |-> 62, as |-> <<38, 103, 116, 59>>],
      [ch |-> 38, as |-> <<38, 97, 109, 112, 59>>]>>

\* text as it is written in a document
XmlEscape(b) ==
    Flatten([i \in 1..Len(b) |->
                IF \E e \in 1..Len(Entities) : Entities[e].ch = b[i]
                THEN Entities[CHOOSE e \in 1..Len(Entities) : Entities[e].ch = b[i]].as
                ELSE <<b[i]>>])

\* the text that is written as b in a document: ok is false if b has an &
\* that does not begin an entity
XmlUnescape(b) ==
    Once(b, LAMBDA c :
        LET Ent(i) == {e \in 1..Len(Entities) : StartsWith(c, i, Entities[e].as)}
            Inside(i) == \E j \in 1..(i - 1) :
                            c[j] = 38 /\ \E e \in Ent(j) : i < j + Len(Entities[e].as)
            Outside(i) == ~Inside(i)
        IN  Once(Positions(Len(c), Outside), LAMBDA at :
                [ok |-> \A i \in 1..Len(c) : c[i] = 38 => Ent(i) # {},
                 text |-> [k \in 1..Len(at) |->
                              IF c[at[k]] = 38 /\ Ent(at[k]) # {}
                              THEN Entities[CHOOSE e \in Ent(at[k]) : TRUE].ch
                              ELSE c[at[k]]]]))

RECURSIVE XmlWrite(_)
\* an element with its text and its children
XmlWrite(n) ==
    Once(n, LAMBDA e :
        Once(XmlEscape(e.text) \o Flatten([k \in 1..Len(e.kids) |-> XmlWrite(e.kids[k])]),
             LAMBDA content :
                IF content = <<>> THEN <<60>> \o e.name \o <<32, 47, 62>>
                ELSE <<60>> \o e.name \o <<62>> \o content
                     \o <<60, 47>> \o e.name \o <<62>>))

ParseFail == [ok |-> FALSE, node |-> EmptyDesc, next |-> 0]

\* the first position from i on that has one of the bytes, Len(b) + 1 if
\* none has
Find(b, i, bytes) ==
    Once({j \in i..Len(b) : b[j] \in bytes}, LAMBDA hits :
        IF hits = {} THEN Len(b) + 1 ELSE CHOOSE j \in hits : \A h \in hits : j <= h)

\* the name of the tag that begins at position i
XmlNameFrom(b, i) == SubSeq(b, i, Find(b, i, {32, 47, 60, 62}) - 1)

RECURSIVE XmlParseElement(_, _)
RECURSIVE XmlParseContent(_, _, _)
\* the content of element `node` from position i on, to its closing tag
XmlParseContent(b, i, node) ==
    Once([b |-> b, i |-> i, node |-> node], LAMBDA a :
        IF a.i > Len(a.b) THEN ParseFail
        ELSE IF StartsWith(a.b, a.i, <<60, 47>>)
        THEN IF StartsWith(a.b, a.i, <<60, 47>> \o a.node.name \o <<62>>)
             THEN [ok |-> TRUE, node |-> a.node, next |-> a.i + Len(a.node.name) + 3]
             ELSE ParseFail
        ELSE IF a.b[a.i] = 60
        THEN Once(XmlParseElement(a.b, a.i), LAMBDA child :
                IF child.ok
                THEN XmlParseContent(a.b, child.next,
                                     [a.node EXCEPT !.kids = Append(@, child.node)])
                ELSE ParseFail)
        ELSE Once(XmlUnescape(SubSeq(a.b, a.i, Find(a.b, a.i, {60}) - 1)), LAMBDA run :
                IF run.ok
                THEN XmlParseContent(a.b, Find(a.b, a.i, {60}),
                                     [a.node EXCEPT !.text = @ \o run.text])
                ELSE ParseFail))

\* the element that begins at position i
XmlParseElement(b, i) ==
    Once(XmlNameFrom(b, i + 1), LAMBDA name :
        LET j == i + 1 + Len(name)
            node == [name |-> name, text |-> <<>>, kids |-> <<>>]
        IN  IF i > Len(b) \/ b[i] # 60 \/ name = <<>> THEN ParseFail
            ELSE IF StartsWith(b, j, <<32, 47, 62>>)
            THEN [ok |-> TRUE, node |-> node, next |-> j + 3]
            ELSE IF StartsWith(b, j, <<62>>) THEN XmlParseContent(b, j + 1, node)
            ELSE ParseFail)

\* a document: one element and nothing after it
XmlParse(b) ==
    Once(XmlParseElement(b, 1), LAMBDA doc :
        IF doc.ok /\ doc.next = Len(b) + 1 THEN doc ELSE ParseFail)

RECURSIVE Digits(_)
\* a number that is not negative in decimal digits
Digits(n) == IF n < 10 THEN <<48 + n>> ELSE Digits(n \div 10) \o <<48 + (n % 10)>>

RECURSIVE ParseDigits(_)
ParseDigits(b) ==
    IF b = <<>> THEN 0 ELSE ParseDigits(SubSeq(b, 1, Len(b) - 1)) * 10 + (b[Len(b)] - 48)

\* the engine's names of the channel formats
FormatName(fmt) ==
    CASE fmt = lsl_channel_format_t_cft_float32 -> <<102, 108, 111, 97, 116, 51, 50>>
      [] fmt = lsl_channel_format_t_cft_double64 -> <<100, 111, 117, 98, 108, 101, 54, 52>>
      [] fmt = lsl_channel_format_t_cft_string -> <<115, 116, 114, 105, 110, 103>>
      [] fmt = lsl_channel_format_t_cft_int32 -> <<105, 110, 116, 51, 50>>
      [] fmt = lsl_channel_format_t_cft_int16 -> <<105, 110, 116, 49, 54>>
      [] fmt = lsl_channel_format_t_cft_int8 -> <<105, 110, 116, 56>>
      [] fmt = lsl_channel_format_t_cft_int64 -> <<105, 110, 116, 54, 52>>
      [] OTHER -> <<117, 110, 100, 101, 102, 105, 110, 101, 100>>

FormatOfName(b) ==
    IF \E fmt \in 1..7 : FormatName(fmt) = b
    THEN CHOOSE fmt \in 1..7 : FormatName(fmt) = b
    ELSE lsl_channel_format_t_cft_undefined

\* the names of the elements of the document
TagInfo == <<105, 110, 102, 111>>
TagName == <<110, 97, 109, 101>>
TagType == <<116, 121, 112, 101>>
TagChannelCount == <<99, 104, 97, 110, 110, 101, 108, 95, 99, 111, 117, 110, 116>>
TagNominalSrate == <<110, 111, 109, 105, 110, 97, 108, 95, 115, 114, 97, 116, 101>>
TagChannelFormat == <<99, 104, 97, 110, 110, 101, 108, 95, 102, 111, 114, 109, 97, 116>>
TagSourceId == <<115, 111, 117, 114, 99, 101, 95, 105, 100>>

TextElement(tag, text) == [name |-> tag, text |-> text, kids |-> <<>>]

\* the document of a streaminfo object
InfoDoc(n) ==
    [name |-> TagInfo, text |-> <<>>,
     kids |-> <<TextElement(TagName, n.name), TextElement(TagType, n.type),
                TextElement(TagChannelCount, Digits(n.channel_count)),
                TextElement(TagNominalSrate, Digits(n.nominal_srate)),
                TextElement(TagChannelFormat, FormatName(n.channel_format)),
                TextElement(TagSourceId, n.source_id), n.desc>>]

\* the engine's lsl_get_xml: the document as a C string, null if it fails
lsl_get_xml(n, ok) == IF ~ok THEN NULL ELSE c_str(XmlWrite(InfoDoc(n)))

\* the children of element doc that have the name tag
Children(doc, tag) == SelectSeq(doc.kids, LAMBDA k : k.name = tag)

\* the engine's lsl_streaminfo_from_xml: null if it fails or if the string is
\* not the document of a streaminfo
lsl_streaminfo_from_xml(xml, ok) ==
    Once(CStr_from_ptr(xml), LAMBDA bytes : Once(XmlParse(bytes), LAMBDA parsed :
        LET doc == parsed.node
            tags == <<TagName, TagType, TagChannelCount, TagNominalSrate,
                      TagChannelFormat, TagSourceId, EmptyDesc.name>>
        IN  IF ~ok \/ ~parsed.ok \/ doc.name # TagInfo
               \/ \E k \in 1..Len(tags) : Len(Children(doc, tags[k])) # 1
            THEN NULL_HANDLE
            ELSE [null |-> FALSE,
                  name |-> Children(doc, TagName)[1].text,
                  type |-> Children(doc, TagType)[1].text,
                  channel_count |-> ParseDigits(Children(doc, TagChannelCount)[1].text),
                  nominal_srate |-> ParseDigits(Children(doc, TagNominalSrate)[1].text),
                  channel_format |-> FormatOfName(Children(doc, TagChannelFormat)[1].text),
                  source_id |-> Children(doc, TagSourceId)[1].text,
                  desc |-> Children(doc, EmptyDesc.name)[1],
                  origin |-> "lsl_streaminfo_from_xml"]))

\* the characters of bytes taken one by one, U+FFFD for a byte above 127
ascii_lossy(b) == [i \in 1..Len(b) |-> IF b[i] < 128 THEN b[i] ELSE 65533]

\* a to_xml that reads the document as ASCII
to_xml_ascii(n, ok) ==
    Once(lsl_get_xml(n, ok), LAMBDA tmpstr :
        IF tmpstr = NULL THEN Err("Internal")
        ELSE Ok(ascii_lossy(CStr_from_ptr(tmpstr))))

\* pub fn to_xml(&self) -> Result<String>
to_xml(n, ok) ==
    Once(lsl_get_xml(n, ok), LAMBDA tmpstr :
        IF tmpstr = NULL THEN Err("Internal")
        ELSE Ok(to_string_lossy(CStr_from_ptr(tmpstr))))

\* pub fn from_xml(xml: &str) -> Result<StreamInfo>: the result, and the
\* native objects made
from_xml(xml, ok) ==
    Once(CString_new(xml), LAMBDA cxml :
        IF cxml.tag = "Err" THEN [res |-> From_NulError(cxml), made |-> <<>>]
        ELSE Once(lsl_streaminfo_from_xml(cxml.val, ok), LAMBDA handle :
                IF handle.null THEN [res |-> Err("ResourceCreation"), made |-> <<>>]
                ELSE [res |-> Ok(1), made |-> <<handle>>]))

(***************************************************************************)
(* The inputs and the steps of a program that constructs a StreamInfo and  *)
(* works with it and with its copies.                                      *)
(***************************************************************************)
\* "", "\u{e9}a", "a\0"
NameStrs == {<<>>, <<233, 97>>, <<97, 0>>}

\* "E", "\0"
TypeStrs == {<<69>>, <<0>>}

\* "", "1\02"
SourceStrs == {<<>>, <<49, 0, 50>>}

\* 0, 2^31 - 1, 2^31, 2^32 - 1
ChannelCounts ==
    {[hi |-> 0, lo |-> 0], [hi |-> 0, lo |-> 2147483647],
     [hi |-> 1, lo |-> 0], [hi |-> 1, lo |-> 2147483647]}

SampleRates == {-1, 0, 100}

\* StreamInfo::new("a", "E", 8, 100.0, f, "1") for a format f
BaseArgs(f) ==
    [name |-> <<97>>, type |-> <<69>>, channel_count |-> [hi |-> 0, lo |-> 8],
     nominal_srate |-> 100, channel_format |-> f, source_id |-> <<49>>]

\* the arguments of the model: every format, and with Float32 every
\* combination of the other arguments
NewArgs ==
    {BaseArgs(f) : f \in ChannelFormats}
    \cup [name : NameStrs, type : TypeStrs, channel_count : ChannelCounts,
          nominal_srate : SampleRates, channel_format : {"Float32"},
          source_id : SourceStrs]

\* "a", "b": the names of the elements that the program adds, without a value
\* (append_child("a")) and with the value "<\u{e9}&" (prepend_child_value("b", ..))
NodeNames == {<<97>>, <<98>>}
AppendedNames == {<<97>>}
PrependedNames == {<<98>>}
NodeValues == {<<60, 233, 38>>}

DataInit ==
    /\ sargs = <<>>
    /\ natives = <<>>
    /\ dataOp = NoDataOp

\* the elements of all description trees together
TotalNodes == LET RECURSIVE Sum(_)
                  Sum(i) == IF i = 0 THEN 0 ELSE NodeCount(natives[i].desc) + Sum(i - 1)
              IN  Sum(Len(natives))

\* StreamInfo::new(..)
New ==
    /\ dataOp.op = "none"
    /\ \E a \in NewArgs, ok \in BOOLEAN :
        LET r == new(a.name, a.type, a.channel_count, a.nominal_srate,
                     a.channel_format, a.source_id, ok)
        IN  /\ sargs' = a
            /\ natives' = r.made
            /\ dataOp' = [op |-> "new", src |-> 0, dst |-> Len(r.made), native_ok |-> ok,
                          res |-> r.res]
    /\ UNCHANGED notData

\* the six accessors of the core fields, on a StreamInfo the program holds
ReadBack ==
    /\ \E i \in 1..Len(natives) :
        dataOp' = [op |-> "read", src |-> i, dst |-> i, native_ok |-> TRUE,
                   res |-> Ok([stream_name |-> stream_name(natives[i]),
                               stream_type |-> stream_type(natives[i]),
                               channel_count |-> channel_count(natives[i]),
                               nominal_srate |-> nominal_srate(natives[i]),
                               channel_format |-> channel_format(natives[i]),
                               source_id |-> source_id(natives[i])])]
    /\ UNCHANGED <<sargs, natives, notData>>

\* an edit at a cursor of info.desc() left the tree r.tree
Edited(i, op, r) ==
    /\ natives' = [natives EXCEPT ![i].desc = r.tree]
    /\ dataOp' = [op |-> op, src |-> i, dst |-> i, native_ok |-> TRUE, res |-> r.res]
    /\ UNCHANGED <<sargs, notData>>

AppendChild ==
    /\ natives # <<>>
    /\ TotalNodes < MaxNodes
    /\ \E i \in 1..Len(natives) :
        \E path \in Paths(natives[i].desc), name \in AppendedNames :
            Edited(i, "append_child", append_child(natives[i].desc, path, name))

PrependChildValue ==
    /\ natives # <<>>
    /\ TotalNodes < MaxNodes
    /\ \E i \in 1..Len(natives) :
        \E path \in Paths(natives[i].desc), name \in PrependedNames, value \in NodeValues :
            Edited(i, "prepend_child_value",
                   prepend_child_value(natives[i].desc, path, name, value))

\* remove_child_named, of a StreamInfo that the program has not copied yet
RemoveChildNamed ==
    /\ Len(natives) = 1
    /\ \E i \in 1..Len(natives) :
        \E path \in Paths(natives[i].desc), name \in NodeNames :
            Edited(i, "remove_child_named",
                   remove_child_named(natives[i].desc, path, name))

\* info.clone()
CloneInfo ==
    /\ natives # <<>>
    /\ Len(natives) < MaxNative
    /\ \E i \in 1..Len(natives) :
        /\ natives' = Append(natives, clone(natives[i]))
        /\ dataOp' = [op |-> "clone", src |-> i, dst |-> Len(natives) + 1,
                      native_ok |-> TRUE, res |-> Ok(0)]
    /\ UNCHANGED <<sargs, notData>>

\* StreamInfo::from_xml(&info.to_xml()?), of a StreamInfo whose fields the
\* program has just read; `fails` is the native call that fails, if any
XmlRoundTrip ==
    /\ dataOp.op = "read"
    /\ Len(natives) < MaxNative
    /\ \E fails \in {"none", "lsl_get_xml", "lsl_streaminfo_from_xml"} :
        \E i \in {dataOp.src} : \E x \in {to_xml(natives[i], fails # "lsl_get_xml")} :
            IF x.tag # "Ok"
            THEN /\ dataOp' = [op |-> "to_xml", src |-> i, dst |-> 0,
                               native_ok |-> fails # "lsl_get_xml", res |-> x]
                 /\ UNCHANGED natives
            ELSE \E r \in {from_xml(x.val, fails # "lsl_streaminfo_from_xml")} :
                    /\ dataOp' = [op |-> "from_xml", src |-> i,
                                  dst |-> IF r.made = <<>> THEN 0 ELSE Len(natives) + 1,
                                  native_ok |-> fails # "lsl_streaminfo_from_xml",
                                  res |-> r.res]
                    /\ natives' = natives \o r.made
    /\ UNCHANGED <<sargs, notData>>

DataNext ==
    \/ New \/ ReadBack \/ AppendChild \/ PrependChildValue \/ RemoveChildNamed
    \/ CloneInfo \/ XmlRoundTrip

\* the state before the first step: nothing else of the library is in use
DataStart == DataInit /\ PushOff /\ PullOff /\ InfoOff /\ RestOff

SpecData == DataStart /\ [][DataNext]_vars

\* the string has an embedded null byte
HasNul(s) == \E i \in 1..Len(s) : s[i] = 0

\* the arguments that StreamInfo::new is to refuse
Refused(a) ==
    \/ a.name = <<>>
    \/ a.nominal_srate < 0
    \/ a.channel_count.hi = 1
    \/ HasNul(a.name) \/ HasNul(a.type) \/ HasNul(a.source_id)

\* C8: StreamInfo::new returns Err(BadArgument), and no native object exists,
\* whenever the name is empty, the rate is negative, channel_count >= 2^31 or
\* one of the three strings has an embedded null byte; for all other arguments
\* it returns Ok and one native object exists, unless the native allocation
\* gave a null handle: then it returns Err(ResourceCreation).
C8_NewValidatesArguments ==
    dataOp.op = "new" =>
        IF Refused(sargs)
        THEN dataOp.res.tag = "Err" /\ dataOp.res.err = "BadArgument" /\ natives = <<>>
        ELSE IF dataOp.native_ok
        THEN dataOp.res.tag = "Ok" /\ Len(natives) = 1
        ELSE dataOp.res.tag = "Err" /\ dataOp.res.err = "ResourceCreation"
             /\ natives = <<>>

\* StreamInfo::new("\u{e9}a", "E", .., "1\02") has returned Err(BadArgument): the
\* null byte of the source id is all that is wrong with the arguments
C8_Witness ==
    /\ dataOp.op = "new"
    /\ sargs.name = <<233, 97>> /\ sargs.type = <<69>> /\ sargs.source_id = <<49, 0, 50>>
    /\ sargs.nominal_srate = 100 /\ sargs.channel_count = [hi |-> 0, lo |-> 2147483647]
    /\ dataOp.res.tag = "Err" /\ dataOp.res.err = "BadArgument"
    /\ natives = <<>>

\* the six core fields as the accessors return them are the arguments `a`
ReadsAs(r, a) ==
    /\ r.stream_name.tag = "Ok" /\ r.stream_name.val = a.name
    /\ r.stream_type.tag = "Ok" /\ r.stream_type.val = a.type
    /\ a.channel_count.hi = 0 /\ r.channel_count = a.channel_count.lo
    /\ r.nominal_srate = a.nominal_srate
    /\ r.channel_format = a.channel_format
    /\ r.source_id.tag = "Ok" /\ r.source_id.val = a.source_id

\* C9: the accessors stream_name, stream_type, channel_count, nominal_srate,
\* channel_format and source_id of a StreamInfo that StreamInfo::new has
\* constructed, or of a clone of it, return exactly the arguments of new,
\* whatever accessor calls, edits of the description tree and clones came
\* before.
C9_ReadBackIsInput ==
    (dataOp.op = "read" /\ natives[dataOp.src].origin = "lsl_create_streaminfo")
        => dataOp.res.tag = "Ok" /\ ReadsAs(dataOp.res.val, sargs)

\* the fields of a clone have been read, after an edit of the description
\* tree: the name is not ASCII and the channel count is the largest
C9_Witness ==
    /\ dataOp.op = "read" /\ dataOp.src = 2
    /\ natives[2].origin = "lsl_create_streaminfo"
    /\ NodeCount(natives[2].desc) > 0
    /\ sargs.name = <<233, 97>> /\ sargs.channel_count.lo = 2147483647
    /\ dataOp.res.val.stream_name.val = <<233, 97>>

\* the core fields of the native objects, as the accessors return them
CoreFields(n) ==
    <<stream_name(n).val, stream_type(n).val, channel_count(n), nominal_srate(n),
      channel_format(n), source_id(n).val>>

\* C10: StreamInfo::from_xml(&info.to_xml()?) is a StreamInfo with the core
\* fields of info and with its description tree: the same elements with the
\* same names and values, the children of each in the same order, at every
\* depth.
C10_XmlRoundTrip ==
    (dataOp.op = "from_xml" /\ dataOp.native_ok) =>
        /\ dataOp.res.tag = "Ok"
        /\ dataOp.dst = Len(natives)
        /\ CoreFields(natives[dataOp.dst]) = CoreFields(natives[dataOp.src])
        /\ natives[dataOp.dst].desc = natives[dataOp.src].desc

\* a round trip of a StreamInfo whose description has an element in an
\* element, with the value "<\u{e9}&", and whose name is not ASCII
C10_Witness ==
    /\ dataOp.op = "from_xml" /\ dataOp.native_ok /\ dataOp.res.tag = "Ok"
    /\ stream_name(natives[dataOp.src]).val = <<233, 97>>
    /\ Len(natives[dataOp.src].desc.kids) = 1
    /\ Len(natives[dataOp.src].desc.kids[1].kids) = 1
    /\ natives[dataOp.src].desc.kids[1].kids[1].text = Utf8(<<60, 233, 38>>)
    /\ natives[dataOp.dst].desc.kids[1].kids[1].text = Utf8(<<60, 233, 38>>)

(***************************************************************************)
(* The operations of XMLElement that take strings, on the description tree *)
(* of one StreamInfo.  A cursor is the path of its element from "desc";    *)
(* the cursor of no element is InvalidCursor.                              *)
(***************************************************************************)
InvalidCursor == <<0>>

NameOps == {"child", "next_sibling_named", "previous_sibling_named", "child_value_named", "set_name", "set_value", "append_child", "prepend_child", "remove_child_named"}

NameValueOps == {"append_child_value", "prepend_child_value", "set_child_value"}

\* the operations that add an element
InsertOps == {"append_child", "prepend_child", "append_child_value", "prepend_child_value"}

\* the index of the first (dir = 1) or last (dir = -1) element named name
\* among those of kids at the indices in among; 0 when there is none
NamedIn(kids, among, name, dir) ==
    LET hits == {i \in among : kids[i].name = name}
    IN  IF hits = {} THEN 0 ELSE CHOOSE i \in hits : \A j \in hits : dir * i <= dir * j

\* the engine's lsl_child, lsl_next_sibling_n, lsl_previous_sibling_n,
\* lsl_child_value_n, lsl_set_name, lsl_set_value and lsl_prepend_child at
\* the element a cursor is on
lsl_name_op(op, t, path, name) ==
    LET kids == NodeAt(t, path).kids
        up == SubSeq(path, 1, Len(path) - 1)
        sibs == NodeAt(t, up).kids
        at(among, dir) == NamedIn(sibs, among, name, dir)
        first == NamedIn(kids, 1..Len(kids), name, 1)
    IN  CASE op = "child" ->
               [res |-> Ok(IF first = 0 THEN InvalidCursor ELSE path \o <<first>>), tree |-> t]
          [] op = "next_sibling_named" ->
               [res |-> Ok(IF path = <<>> \/ at((path[Len(path)] + 1)..Len(sibs), 1) = 0
                           THEN InvalidCursor
                           ELSE up \o <<at((path[Len(path)] + 1)..Len(sibs), 1)>>),
                tree |-> t]
          [] op = "previous_sibling_named" ->
               [res |-> Ok(IF path = <<>> \/ at(1..(path[Len(path)] - 1), -1) = 0
                           THEN InvalidCursor
                           ELSE up \o <<at(1..(path[Len(path)] - 1), -1)>>),
                tree |-> t]
          [] op = "child_value_named" ->
               [res |-> Ok(IF first = 0 THEN <<>> ELSE kids[first].text), tree |-> t]
          [] op = "set_name" ->
               [res |-> Ok(TRUE),
                tree |-> ReplaceAt(t, path, [NodeAt(t, path) EXCEPT !.name = name])]
          [] op = "set_value" ->
               \* an element has no value of its own: nothing is set
               [res |-> Ok(FALSE), tree |-> t]
          [] op = "prepend_child" ->
               [res |-> Ok(path \o <<1>>),
                tree |-> XmlPrepend(t, path, [name |-> name, text |-> <<>>, kids |-> <<>>])]

\* the engine's lsl_append_child_value and lsl_set_child_value
lsl_name_value_op(op, t, path, name, value) ==
    LET kids == NodeAt(t, path).kids
        first == NamedIn(kids, 1..Len(kids), name, 1)
    IN  CASE op = "append_child_value" ->
               [res |-> Ok(path),
                tree |-> XmlAppend(t, path, [name |-> name, text |-> value, kids |-> <<>>])]
          [] op = "set_child_value" ->
               IF first = 0 \/ kids[first].text = <<>> THEN [res |-> Ok(FALSE), tree |-> t]
               ELSE [res |-> Ok(TRUE),
                     tree |-> ReplaceAt(t, path \o <<first>>,
                                        [kids[first] EXCEPT !.text = value])]

\* child, next_sibling_named, previous_sibling_named, child_value_named,
\* set_name, set_value, prepend_child: the string is converted, then the
\* native function is called
xml_name_op(op, t, path, name) ==
    IF make_cstring(name).tag = "panic" THEN [res |-> Panic, tree |-> t]
    ELSE lsl_name_op(op, t, path, CStr_from_ptr(make_cstring(name).val))

\* append_child_value, set_child_value: name is converted, then value,
\* then the native function is called
xml_name_value_op(op, t, path, name, value) ==
    IF make_cstring(name).tag = "panic" \/ make_cstring(value).tag = "panic"
    THEN [res |-> Panic, tree |-> t]
    ELSE lsl_name_value_op(op, t, path, CStr_from_ptr(make_cstring(name).val),
                           CStr_from_ptr(make_cstring(value).val))

\* the operation op of XMLElement at the cursor path
xml_string_op(op, t, path, name, value) ==
    CASE op = "append_child" -> append_child(t, path, name)
      [] op = "prepend_child_value" -> prepend_child_value(t, path, name, value)
      [] op = "remove_child_named" -> remove_child_named(t, path, name)
      [] op \in NameValueOps \ {"prepend_child_value"} ->
           xml_name_value_op(op, t, path, name, value)
      [] OTHER -> xml_name_op(op, t, path, name)

\* the strings the program passes: "a", "b", "a\0b" and "v", "v\0"
XmlNames == {<<97>>, <<98>>, <<97, 0, 98>>}
XmlValues == {<<118>>, <<118, 0>>}

\* the names the program gives to the elements it adds: "a", "a\0b"
InsertedNames == {<<97>>, <<97, 0, 98>>}

\* StreamInfo::from_blank() was called and desc() taken
TreeInit ==
    /\ descTree = EmptyDesc
    /\ xmlOp = NoXmlOp

StringCall(op, path, name, value) ==
    /\ op \in InsertOps => NodeCount(descTree) < MaxNodes
    /\ \E r \in {xml_string_op(op, descTree, path, name, value)} :
          /\ descTree' = r.tree
          /\ xmlOp' = [op |-> op, path |-> path,
                       strs |-> IF op \in NameValueOps THEN <<name, value>> ELSE <<name>>,
                       res |-> r.res]
    /\ UNCHANGED notTree

\* navigation and content queries by name
NavigateNamed ==
    \E op \in {"child", "next_sibling_named", "previous_sibling_named", "child_value_named"} :
        \E path \in Paths(descTree), name \in XmlNames : StringCall(op, path, name, <<>>)

\* the operations that add an element
InsertNamed ==
    \/ \E op \in {"append_child", "prepend_child"} :
          \E path \in Paths(descTree), name \in InsertedNames :
              StringCall(op, path, name, <<>>)
    \/ \E op \in {"append_child_value", "prepend_child_value"} :
          \E path \in Paths(descTree), name \in InsertedNames, value \in XmlValues :
              StringCall(op, path, name, value)

\* the setters; the program does not rename "desc" itself
SetNamed ==
    \/ \E path \in Paths(descTree) \ {<<>>}, name \in XmlNames :
          StringCall("set_name", path, name, <<>>)
    \/ \E path \in Paths(descTree), name \in XmlNames :
          StringCall("set_value", path, name, <<>>)
    \/ \E path \in Paths(descTree), name \in XmlNames, value \in XmlValues :
          StringCall("set_child_value", path, name, value)

RemoveNamed ==
    \E path \in Paths(descTree), name \in XmlNames :
        StringCall("remove_child_named", path, name, <<>>)

TreeNext == \/ NavigateNamed \/ InsertNamed \/ SetNamed \/ RemoveNamed

TreeStart == TreeInit /\ PushOff /\ PullOff /\ InfoOff /\ DataOff /\ ApiOff /\ EndsOff /\ CrOff /\ CurOff

SpecTree == TreeStart /\ [][TreeNext]_vars

\* C12: a string with an embedded null byte passed to any of the
\* operations of XMLElement that take strings ends in a panic, it is
\* neither an error value nor an invalid cursor that is returned, and the
\* tree is as it was before the call.
C12_NulIsFatalInTree ==
    [][(\E k \in 1..Len(xmlOp'.strs) : HasNul(xmlOp'.strs[k]))
        => (xmlOp'.res.tag = "panic" /\ descTree' = descTree)]_vars

C12_Witness ==
    /\ xmlOp.op = "append_child_value"
    /\ xmlOp.strs = <<<<97>>, <<118, 0>>>>
    /\ xmlOp.res.tag = "panic"
    /\ xmlOp.path = <<1>>
    /\ NodeCount(descTree) = 1

(***************************************************************************)
(* The functions that hand strings and counts to the engine: resolution,   *)
(* the constructors of ContinuousResolver, matches_query and from_xml.     *)
(* What the engine meets on the network or answers is an input of a call.  *)
(***************************************************************************)
\* let mut buffer = [0 as lsl_streaminfo; 1024]
BufferLen == 1024

\* what a resolve call can meet: the number of matching streams the engine
\* has seen when it returns, and whether the engine fails
Nets == [found : (0..MaxFound) \cup {BufferLen + 1}, fault : BOOLEAN]

\* the engine's lsl_resolve_all / lsl_resolve_byprop / lsl_resolve_bypred:
\* the handles of the streams seen go to the buffer, as many as it takes,
\* and their number is returned; a failure is the internal error
lsl_resolve(buffer_elements, net) ==
    IF net.fault THEN [ret |-> lsl_error_code_t_lsl_internal_error, written |-> <<>>]
    ELSE [ret |-> IF net.found < buffer_elements THEN net.found ELSE buffer_elements,
          written |-> [i \in 1..(IF net.found < buffer_elements THEN net.found
                                 ELSE buffer_elements) |-> i]]

\* buffer[i - 1] of a buffer of zeros the engine wrote the handles written to
BufferAt(written, i) == IF i <= Len(written) THEN written[i] ELSE 0

\* a result that would take the expiry of the wait for the time out error
resolved_or_timeout(ret, written) ==
    IF ec_to_result(ret).tag = "Err" THEN ec_to_result(ret)
    ELSE IF ret = 0 THEN Err("Timeout")
    ELSE Ok([i \in 1..ret |-> BufferAt(written, i)])

\* ec_to_result(..)? as usize, then buffer[0..num_resolved] mapped with
\* StreamInfo::from_handle, which asserts that the handle is not null
resolved(ret, written) ==
    IF ec_to_result(ret).tag = "Err" THEN ec_to_result(ret)
    ELSE IF ret > BufferLen \/ \E i \in 1..ret : BufferAt(written, i) = 0 THEN Panic
    ELSE Ok([i \in 1..ret |-> BufferAt(written, i)])

\* pub fn resolve_streams(wait_time: f64) -> Result<vec::Vec<StreamInfo>>
resolve_streams(wait_time, net) ==
    LET e == lsl_resolve(BufferLen, net)
    IN  [res |-> resolved(e.ret, e.written),
         native |-> <<[fn |-> "lsl_resolve_all", ret |-> e.ret]>>]

\* pub fn resolve_byprop(prop: &str, value: &str, minimum: i32, wait_time: f64)
resolve_byprop(prop, value, minimum, wait_time, net) ==
    IF CString_new(prop).tag = "Err"
    THEN [res |-> From_NulError(CString_new(prop)), native |-> <<>>]
    ELSE IF CString_new(value).tag = "Err"
    THEN [res |-> From_NulError(CString_new(value)), native |-> <<>>]
    ELSE LET e == lsl_resolve(BufferLen, net)
         IN  [res |-> resolved(e.ret, e.written),
              native |-> <<[fn |-> "lsl_resolve_byprop", ret |-> e.ret]>>]

\* a resolve_bypred that would hand the engine the string up to its null byte
resolve_bypred_cut(pred, minimum, wait_time, net) ==
    LET e == lsl_resolve(BufferLen, net)
    IN  [res |-> resolved(e.ret, e.written),
         native |-> <<[fn |-> "lsl_resolve_bypred", ret |-> e.ret]>>]

\* pub fn resolve_bypred(pred: &str, minimum: i32, wait_time: f64)
resolve_bypred(pred, minimum, wait_time, net) ==
    IF CString_new(pred).tag = "Err"
    THEN [res |-> From_NulError(CString_new(pred)), native |-> <<>>]
    ELSE LET e == lsl_resolve(BufferLen, net)
         IN  [res |-> resolved(e.ret, e.written),
              native |-> <<[fn |-> "lsl_resolve_bypred", ret |-> e.ret]>>]

\* pub fn matches_query(&self, query: &str) -> bool; answer is what the
\* engine's lsl_stream_info_matches_query returns
matches_query(query, answer) ==
    IF CString_new(query).tag = "Ok"
    THEN [res |-> Ok(answer # 0),
          native |-> <<[fn |-> "lsl_stream_info_matches_query", ret |-> answer]>>]
    ELSE [res |-> Ok(FALSE), native |-> <<>>]

\* the native calls of StreamInfo::from_xml
from_xml_native(xml) ==
    IF CString_new(xml).tag = "Err" THEN <<>>
    ELSE <<[fn |-> "lsl_streaminfo_from_xml", ret |-> 0]>>

\* the strings the program passes: "t", "t\0="
QueryStrs == {<<116>>, <<116, 0, 61>>}

\* the documents the program passes to from_xml: "<", "<\0"
XmlDocs == {<<60>>, <<60, 0>>}

Minimums == 0..MaxFound

WaitTimes == {0, TicksPerSec, FOREVER}

\* the wait of a resolve call ended before minimum streams were seen;
\* resolve_streams always waits to the end
Expired(c) == c.fn = "resolve_streams" \/ c.args.net.found < c.args.minimum

\* a call that waits forever returns when the engine has seen minimum
\* streams, or has failed
Returns(fn, minimum, wait_time, net) ==
    wait_time = FOREVER => (net.fault \/ (fn # "resolve_streams" /\ net.found >= minimum))

\* the program calls fn once it has taken the result of the call before
ApiDone(fn, strs, args, r) ==
    /\ apiCall = NoApiCall
    /\ apiCall' = [fn |-> fn, strs |-> strs, args |-> args]
    /\ apiNative' = r.native
    /\ apiResult' = r.res
    /\ UNCHANGED notApi

ResolveStreams ==
    \E wait_time \in WaitTimes, net \in Nets :
        /\ Returns("resolve_streams", 0, wait_time, net)
        /\ ApiDone("resolve_streams", <<>>,
                   [minimum |-> 0, wait_time |-> wait_time, net |-> net],
                   resolve_streams(wait_time, net))

ResolveByprop ==
    \E prop \in QueryStrs, value \in QueryStrs, minimum \in Minimums,
       wait_time \in WaitTimes, net \in Nets :
        /\ Returns("resolve_byprop", minimum, wait_time, net)
        /\ ApiDone("resolve_byprop", <<prop, value>>,
                   [minimum |-> minimum, wait_time |-> wait_time, net |-> net],
                   resolve_byprop(prop, value, minimum, wait_time, net))

ResolveBypred ==
    \E pred \in QueryStrs, minimum \in Minimums, wait_time \in WaitTimes, net \in Nets :
        /\ Returns("resolve_bypred", minimum, wait_time, net)
        /\ ApiDone("resolve_bypred", <<pred>>,
                   [minimum |-> minimum, wait_time |-> wait_time, net |-> net],
                   resolve_bypred(pred, minimum, wait_time, net))

MatchesQuery ==
    \E query \in QueryStrs, answer \in {0, 1} :
        ApiDone("matches_query", <<query>>, [answer |-> answer],
                matches_query(query, answer))

FromXml ==
    \E xml \in XmlDocs, ok \in BOOLEAN :
        ApiDone("from_xml", <<xml>>, [ok |-> ok],
                [res |-> from_xml(xml, ok).res, native |-> from_xml_native(xml)])

\* a constructor that would leave the check of forget_after to the engine
ContinuousResolver_new_unchecked(forget_after, null) ==
    [res |-> IF null THEN Err("ResourceCreation") ELSE Ok(1),
     native |-> <<[fn |-> "lsl_create_continuous_resolver", ret |-> IF null THEN 0 ELSE 1]>>]

\* pub fn new(forget_after: f64) -> Result<ContinuousResolver>; null: the
\* engine returns a null handle
ContinuousResolver_new(forget_after, null) ==
    IF forget_after <= 0 THEN [res |-> Err("BadArgument"), native |-> <<>>]
    ELSE [res |-> IF null THEN Err("ResourceCreation") ELSE Ok(1),
          native |-> <<[fn |-> "lsl_create_continuous_resolver",
                        ret |-> IF null THEN 0 ELSE 1]>>]

\* pub fn new_with_prop(prop: &str, value: &str, forget_after: f64)
ContinuousResolver_new_with_prop(prop, value, forget_after, null) ==
    IF forget_after <= 0 THEN [res |-> Err("BadArgument"), native |-> <<>>]
    ELSE IF CString_new(prop).tag = "Err"
    THEN [res |-> From_NulError(CString_new(prop)), native |-> <<>>]
    ELSE IF CString_new(value).tag = "Err"
    THEN [res |-> From_NulError(CString_new(value)), native |-> <<>>]
    ELSE [res |-> IF null THEN Err("ResourceCreation") ELSE Ok(1),
          native |-> <<[fn |-> "lsl_create_continuous_resolver_byprop",
                        ret |-> IF null THEN 0 ELSE 1]>>]

\* pub fn new_with_pred(pred: &str, forget_after: f64)
ContinuousResolver_new_with_pred(pred, forget_after, null) ==
    IF forget_after <= 0 THEN [res |-> Err("BadArgument"), native |-> <<>>]
    ELSE IF CString_new(pred).tag = "Err"
    THEN [res |-> From_NulError(CString_new(pred)), native |-> <<>>]
    ELSE [res |-> IF null THEN Err("ResourceCreation") ELSE Ok(1),
          native |-> <<[fn |-> "lsl_create_continuous_resolver_bypred",
                        ret |-> IF null THEN 0 ELSE 1]>>]

\* forget_after in ticks: negative, zero, positive
ForgetAfters == {-1, 0, TicksPerSec}

ResolverNew ==
    \E forget_after \in ForgetAfters, null \in BOOLEAN :
        ApiDone("ContinuousResolver::new", <<>>,
                [forget_after |-> forget_after, null |-> null],
                ContinuousResolver_new(forget_after, null))

ResolverNewWithProp ==
    \E prop \in QueryStrs, value \in QueryStrs, forget_after \in ForgetAfters, null \in BOOLEAN :
        ApiDone("ContinuousResolver::new_with_prop", <<prop, value>>,
                [forget_after |-> forget_after, null |-> null],
                ContinuousResolver_new_with_prop(prop, value, forget_after, null))

ResolverNewWithPred ==
    \E pred \in QueryStrs, forget_after \in ForgetAfters, null \in BOOLEAN :
        ApiDone("ContinuousResolver::new_with_pred", <<pred>>,
                [forget_after |-> forget_after, null |-> null],
                ContinuousResolver_new_with_pred(pred, forget_after, null))

\* a | b on unsigned numbers
RECURSIVE BitOr(_, _)
BitOr(a, b) ==
    IF a = 0 THEN b
    ELSE IF b = 0 THEN a
    ELSE (IF a % 2 = 1 \/ b % 2 = 1 THEN 1 ELSE 0) + 2 * BitOr(a \div 2, b \div 2)

\* pub enum ProcessingOption: opt as u32
ProcessingOption(opt) ==
    CASE opt = "None" -> 0
      [] opt = "ClockSync" -> 1
      [] opt = "Dejitter" -> 2
      [] opt = "Monotonize" -> 4
      [] opt = "Threadsafe" -> 8
      [] opt = "ALL" -> BitOr(BitOr(BitOr(1, 2), 4), 8)

\* the engine's lsl_set_postprocessing: flags the engine does not know
\* are rejected with the argument error
lsl_set_postprocessing(flags, known) ==
    IF BitOr(flags, known) = known THEN 0 ELSE lsl_error_code_t_lsl_argument_error

\* a loop that would add the options up
RECURSIVE fold_flags_sum(_, _)
fold_flags_sum(flags, options) ==
    IF options = <<>> THEN flags
    ELSE fold_flags_sum(flags + ProcessingOption(Head(options)), Tail(options))

\* for &opt in options { flags |= opt as u32; }
RECURSIVE fold_flags(_, _)
fold_flags(flags, options) ==
    IF options = <<>> THEN flags
    ELSE fold_flags(BitOr(flags, ProcessingOption(Head(options))), Tail(options))

\* a set_postprocessing that would panic when the engine rejects the flags
set_postprocessing_fatal(options, known) ==
    LET flags == fold_flags(0, options)
        ec == lsl_set_postprocessing(flags, known)
    IN  [res |-> IF ec_to_result(ec).tag = "Err" THEN Panic ELSE Ok(0),
         native |-> <<[fn |-> "lsl_set_postprocessing", flags |-> flags, ret |-> ec]>>]

\* pub fn set_postprocessing(&self, options: &[ProcessingOption]) -> Result<()>
set_postprocessing(options, known) ==
    LET flags == fold_flags(0, options)
        ec == lsl_set_postprocessing(flags, known)
    IN  [res |-> IF ec_to_result(ec).tag = "Err" THEN ec_to_result(ec) ELSE Ok(0),
         native |-> <<[fn |-> "lsl_set_postprocessing", flags |-> flags, ret |-> ec]>>]

ProcessingOptions == {"None", "ClockSync", "Dejitter", "Monotonize", "Threadsafe", "ALL"}

\* the options the program passes: every list of up to MaxOpts options
OptionLists == UNION {[1..n -> ProcessingOptions] : n \in 0..MaxOpts}

\* the flags an engine can know: all of them, or those of a version
\* without Monotonize and Threadsafe
KnownFlags == {15, 3}

SetPostprocessing ==
    \E options \in OptionLists, known \in KnownFlags :
        ApiDone("set_postprocessing", <<>>, [options |-> options, known |-> known],
                set_postprocessing(options, known))

\* info.channel_count() as usize: whether a bit from 2^31 up is set, which
\* the sign extension does for a negative count, and the low 31 bits
as_usize(c) == [high |-> c < 0, low |-> IF c < 0 THEN (c + 2147483647) + 1 ELSE c]

\* the StreamInfo values a constructor can be given: those of the engine
\* can carry any count and rate
EndpointInfos == [channel_count : {-1, 0, 1}, nominal_srate : {-1, 0, 1}]

\* a StreamOutlet::new that would not look at the rate
StreamOutlet_new_any_rate(info, chunk_size, max_buffered, null) ==
    IF chunk_size < 0 \/ max_buffered < 0 \/ as_usize(info.channel_count).high
    THEN [res |-> Err("BadArgument"), native |-> <<>>]
    ELSE [res |-> IF null THEN Err("ResourceCreation") ELSE Ok(1),
          native |-> <<[fn |-> "lsl_create_outlet", ret |-> IF null THEN 0 ELSE 1]>>]

\* pub fn new(info: &StreamInfo, chunk_size: i32, max_buffered: i32) -> Result<StreamOutlet>
StreamOutlet_new(info, chunk_size, max_buffered, null) ==
    LET channels == as_usize(info.channel_count)
        rate == info.nominal_srate
    IN  IF chunk_size < 0 \/ max_buffered < 0 \/ channels.high \/ rate < 0
        THEN [res |-> Err("BadArgument"), native |-> <<>>]
        ELSE [res |-> IF null THEN Err("ResourceCreation")
                      ELSE Ok([channel_count |-> channels, nominal_rate |-> rate]),
              native |-> <<[fn |-> "lsl_create_outlet", ret |-> IF null THEN 0 ELSE 1]>>]

\* pub fn new(info: &StreamInfo, max_buflen: i32, max_chunklen: i32, recover: bool) -> Result<StreamInlet>
StreamInlet_new(info, max_buflen, max_chunklen, recover, null) ==
    LET channels == as_usize(info.channel_count)
    IN  IF max_buflen < 0 \/ max_chunklen < 0 \/ channels.high
        THEN [res |-> Err("BadArgument"), native |-> <<>>]
        ELSE [res |-> IF null THEN Err("ResourceCreation")
                      ELSE Ok([channel_count |-> channels]),
              native |-> <<[fn |-> "lsl_create_inlet", ret |-> IF null THEN 0 ELSE 1]>>]

OutletNew ==
    \E info \in EndpointInfos, chunk_size \in {-1, 0, 1}, max_buffered \in {-1, 0, 1},
       null \in BOOLEAN :
        ApiDone("StreamOutlet::new", <<>>,
                [info |-> info, a |-> chunk_size, b |-> max_buffered, null |-> null],
                StreamOutlet_new(info, chunk_size, max_buffered, null))

InletNew ==
    \E info \in EndpointInfos, max_buflen \in {-1, 0, 1}, max_chunklen \in {-1, 0, 1},
       recover \in BOOLEAN, null \in BOOLEAN :
        ApiDone("StreamInlet::new", <<>>,
                [info |-> info, a |-> max_buflen, b |-> max_chunklen,
                 recover |-> recover, null |-> null],
                StreamInlet_new(info, max_buflen, max_chunklen, recover, null))

\* the status codes ec_to_result is applied to
Codes == ((-MaxCode)..MaxCode) \cup {-2147483647 - 1, 2147483647}

EcToResult ==
    \E ec \in Codes :
        ApiDone("ec_to_result", <<>>, [ec |-> ec], [res |-> ec_to_result(ec), native |-> <<>>])

\* the native format values: around the defined ones, and the ends of i32
NativeFormats == ((-MaxFmt)..MaxFmt) \cup {-2147483647 - 1, 2147483647}

ToNative ==
    \E f \in ChannelFormats :
        ApiDone("to_native", <<>>, [f |-> f], [res |-> Ok(to_native(f)), native |-> <<>>])

FromNative ==
    \E fmt \in NativeFormats :
        ApiDone("from_native", <<>>, [fmt |-> fmt], [res |-> Ok(from_native(fmt)), native |-> <<>>])

\* the program takes the result of the call
ApiReturn ==
    /\ apiCall # NoApiCall
    /\ apiCall' = NoApiCall
    /\ apiNative' = <<>>
    /\ apiResult' = NoResult
    /\ UNCHANGED notApi

ApiNext ==
    \/ ApiReturn
    \/ ResolveStreams \/ ResolveByprop \/ ResolveBypred \/ MatchesQuery \/ FromXml
    \/ ResolverNew \/ ResolverNewWithProp \/ ResolverNewWithPred
    \/ SetPostprocessing \/ OutletNew \/ InletNew \/ EcToResult
    \/ ToNative \/ FromNative

ApiStart == ApiOff /\ PushOff /\ PullOff /\ InfoOff /\ DataOff /\ TreeOff /\ EndsOff /\ CrOff /\ CurOff

SpecApi == ApiStart /\ [][ApiNext]_vars

\* the strings of the call done last have a null byte
NulPassed == \E k \in 1..Len(apiCall.strs) : HasNul(apiCall.strs[k])

\* C13: outside the metadata tree a string with an embedded null byte is
\* refused without a panic and without a call of the engine: from_xml,
\* resolve_byprop, resolve_bypred, ContinuousResolver::new_with_prop and
\* new_with_pred return Err(BadArgument), matches_query returns false.
C13_NulIsRecoverable ==
    NulPassed =>
        /\ apiNative = <<>>
        /\ apiResult.tag # "panic"
        /\ IF apiCall.fn = "matches_query"
           THEN apiResult.tag = "Ok" /\ apiResult.val = FALSE
           ELSE apiResult.tag = "Err" /\ apiResult.err = "BadArgument"

C13_Witness ==
    /\ apiCall.fn = "resolve_bypred"
    /\ apiCall.strs = <<<<116, 0, 61>>>>
    /\ apiCall.args.net.found = 1
    /\ apiResult = Err("BadArgument")
    /\ apiNative = <<>>

\* C14 as stated: when the engine rejects the flags passed to
\* set_postprocessing, the call panics.
C14_RejectionIsFatal ==
    (apiCall.fn = "set_postprocessing" /\ apiNative[1].ret < 0) => apiResult.tag = "panic"

\* C14, amended: when the engine rejects the flags passed to
\* set_postprocessing, the call returns the error of the engine's status
\* code, Err(BadArgument) for the argument error, and does not panic.
C14_RejectionIsBadArgument ==
    (apiCall.fn = "set_postprocessing" /\ apiNative[1].ret < 0)
        => (apiResult = ec_to_result(apiNative[1].ret) /\ apiResult = Err("BadArgument"))

C14_Witness ==
    /\ apiCall.fn = "set_postprocessing"
    /\ apiCall.args.options = <<"ALL">>
    /\ apiCall.args.known = 3
    /\ apiNative[1].ret = lsl_error_code_t_lsl_argument_error
    /\ apiResult = Err("BadArgument")

ResolveFns == {"resolve_streams", "resolve_byprop", "resolve_bypred"}

\* C15: for resolve_streams, resolve_byprop and resolve_bypred the expiry
\* of wait_time is no error: unless the engine fails, the call returns Ok
\* with exactly the streams the engine reported, which can be fewer than
\* minimum or none and are never more than the buffer takes, and the call
\* never returns Err(Timeout).
C15_ExpiryIsNotAnError ==
    apiCall.fn \in ResolveFns =>
        /\ apiResult.err # "Timeout"
        /\ (apiNative # <<>> /\ ~apiCall.args.net.fault) =>
              /\ apiResult.tag = "Ok"
              /\ Len(apiResult.val) = apiNative[1].ret
              /\ Len(apiResult.val) <= BufferLen
              /\ \A i \in 1..Len(apiResult.val) : apiResult.val[i] = i
              /\ Len(apiResult.val) < BufferLen => Len(apiResult.val) = apiCall.args.net.found

C15_Witness ==
    /\ apiCall.fn = "resolve_byprop"
    /\ apiCall.args.minimum = 1
    /\ apiCall.args.wait_time = TicksPerSec
    /\ apiCall.args.net = [found |-> 0, fault |-> FALSE]
    /\ Expired(apiCall)
    /\ apiNative # <<>>
    /\ apiResult.tag = "Ok" /\ apiResult.val = <<>>

ResolverConstructors == {"ContinuousResolver::new", "ContinuousResolver::new_with_prop", "ContinuousResolver::new_with_pred"}

\* C16: each of the three constructors of ContinuousResolver returns
\* Err(BadArgument) and creates no native resolver when forget_after <= 0,
\* whatever the other arguments are.
C16_ForgetAfterChecked ==
    (apiCall.fn \in ResolverConstructors /\ apiCall.args.forget_after <= 0)
        => (apiResult = Err("BadArgument") /\ apiNative = <<>>)

C16_Witness ==
    /\ apiCall.fn = "ContinuousResolver::new_with_prop"
    /\ apiCall.args.forget_after = 0
    /\ ~NulPassed
    /\ ~apiCall.args.null
    /\ apiResult = Err("BadArgument")
    /\ apiNative = <<>>

\* the arguments of the constructor called last are refused by its code
EndpointRefused ==
    \/ apiCall.args.a < 0
    \/ apiCall.args.b < 0
    \/ apiCall.args.info.channel_count < 0
    \/ apiCall.fn = "StreamOutlet::new" /\ apiCall.args.info.nominal_srate < 0

\* C17: StreamOutlet::new returns Err(BadArgument) and creates no native
\* outlet when chunk_size or max_buffered is negative, the channel count of
\* the info is out of range or its rate negative; StreamInlet::new does so
\* when max_buflen or max_chunklen is negative or the channel count out of
\* range.  Otherwise a null handle gives Err(ResourceCreation), any other
\* handle Ok.
C17_EndpointsValidate ==
    apiCall.fn \in {"StreamOutlet::new", "StreamInlet::new"} =>
        IF EndpointRefused THEN apiResult = Err("BadArgument") /\ apiNative = <<>>
        ELSE /\ Len(apiNative) = 1
             /\ IF apiCall.args.null THEN apiResult = Err("ResourceCreation")
                ELSE apiResult.tag = "Ok"

C17_Witness ==
    /\ apiCall.fn = "StreamOutlet::new"
    /\ apiCall.args.info = [channel_count |-> 1, nominal_srate |-> -1]
    /\ apiCall.args.a = 0 /\ apiCall.args.b = 0
    /\ apiResult = Err("BadArgument")
    /\ apiNative = <<>>

\* C18: ec_to_result gives Ok of the code for every code that is not
\* negative, Timeout, BadArgument, StreamLost and Internal for the four
\* negative codes it knows, Unknown for every other negative code, and
\* never ResourceCreation.
C18_EcToResult ==
    apiCall.fn = "ec_to_result" =>
        LET ec == apiCall.args.ec
        IN  /\ ec >= 0 => (apiResult.tag = "Ok" /\ apiResult.val = ec)
            /\ ec < 0 => apiResult.tag = "Err"
            /\ ec = lsl_error_code_t_lsl_timeout_error => apiResult.err = "Timeout"
            /\ ec = lsl_error_code_t_lsl_argument_error => apiResult.err = "BadArgument"
            /\ ec = lsl_error_code_t_lsl_lost_error => apiResult.err = "StreamLost"
            /\ ec = lsl_error_code_t_lsl_internal_error => apiResult.err = "Internal"
            /\ (ec < 0 /\ ec \notin {lsl_error_code_t_lsl_timeout_error,
                                    lsl_error_code_t_lsl_argument_error,
                                    lsl_error_code_t_lsl_lost_error,
                                    lsl_error_code_t_lsl_internal_error})
                  => apiResult.err = "Unknown"
            /\ apiResult.err # "ResourceCreation"

C18_Witness ==
    /\ apiCall.fn = "ec_to_result"
    /\ apiCall.args.ec = -5
    /\ apiResult = Err("Unknown")

(***************************************************************************)
(* The disposal of StreamInfo, StreamOutlet and StreamInlet values.  An    *)
(* outlet or inlet is made from a StreamInfo the program holds; the engine *)
(* takes a copy of the declaration for it, and info() hands out a copy of  *)
(* that.  The StreamInfo values a resolve call returns are wrapped with    *)
(* from_handle like those of info(), each on a native object of its own.   *)
(***************************************************************************)
Made == {e \in 1..MaxEnds : ends[e].kind # "none"}

Live == {e \in 1..MaxEnds : ends[e].live}

\* a native call on the handle of an outlet or inlet
EndUse(es, e) == [es EXCEPT ![e].misuse = @ \/ (es[e].destroyed > 0)]

\* StreamOutlet::new / StreamInlet::new with arguments that pass the
\* checks and a handle that is not null: lsl_create_outlet /
\* lsl_create_inlet reads the native StreamInfo
endpoint_new(m, es, kind, o) ==
    [heap |-> NativeUse(m, o.handle),
     ends |-> [es EXCEPT ![Cardinality({e \in 1..MaxEnds : es[e].kind # "none"}) + 1] =
                  [kind |-> kind, live |-> TRUE, destroyed |-> 0, misuse |-> FALSE,
                   src |-> o.handle]]]

\* a drop that would leave the native object alone
endpoint_drop_leak(es, e) == [es EXCEPT ![e].live = FALSE]

\* impl Drop for StreamOutlet / StreamInlet: lsl_destroy_outlet / lsl_destroy_inlet
endpoint_drop(es, e) == [es EXCEPT ![e].live = FALSE, ![e].destroyed = @ + 1]

\* StreamOutlet::info / StreamInlet::info with a handle that is not null:
\* lsl_get_info / lsl_get_fullinfo on the handle, from_handle on the copy
\* the engine returns
endpoint_info(m, es, e) == [heap |-> info_new(m).heap, obj |-> info_new(m).obj, ends |-> EndUse(es, e)]

\* push_sample, pull_sample, ..: a native call on the handle
endpoint_use(es, e) == EndUse(es, e)

MakeEndpoint ==
    \E i \in Infos, kind \in {"StreamOutlet", "StreamInlet"} :
        /\ Cardinality(Made) < MaxEnds
        /\ heap' = endpoint_new(heap, ends, kind, objs[i]).heap
        /\ ends' = endpoint_new(heap, ends, kind, objs[i]).ends
        /\ endOp' = [op |-> "new", end |-> Cardinality(Made) + 1]
        /\ lastOp' = [op |-> "read", kind |-> "StreamInfo", handle |-> objs[i].handle,
                      released |-> FALSE, edit |-> 0]
        /\ UNCHANGED <<objs, notInfoEnds>>

EndpointInfo ==
    \E e \in Live :
        /\ heap.created < MaxHandles
        /\ Free # {}
        /\ LET f == CHOOSE o \in Free : \A o2 \in Free : o <= o2
               r == endpoint_info(heap, ends, e)
           IN  /\ objs' = [objs EXCEPT ![f] = r.obj]
               /\ heap' = r.heap
               /\ ends' = r.ends
               /\ lastOp' = [op |-> "info", kind |-> "StreamInfo", handle |-> r.obj.handle,
                             released |-> FALSE, edit |-> 0]
        /\ endOp' = [op |-> "info", end |-> e]
        /\ UNCHANGED notInfoEnds

UseEndpoint ==
    \E e \in Live :
        /\ ends' = endpoint_use(ends, e)
        /\ endOp' = [op |-> "use", end |-> e]
        /\ UNCHANGED <<infoVars, notInfoEnds>>

DropEndpoint ==
    \E e \in Live :
        /\ ends' = endpoint_drop(ends, e)
        /\ endOp' = [op |-> "drop", end |-> e]
        /\ UNCHANGED <<infoVars, notInfoEnds>>

DisposeNext ==
    \/ InfoNew \/ InfoClone \/ DropObj
    \/ MakeEndpoint \/ EndpointInfo \/ UseEndpoint \/ DropEndpoint

SpecDispose == InfoStart /\ [][DisposeNext]_vars

\* C19: whatever the order in which a StreamInfo, the outlets and inlets
\* made from it and the StreamInfo values got from info() or a resolve
\* call are dropped, each native object is destroyed exactly once, when
\* its value is dropped, and no native call is made on an object that
\* was destroyed: an outlet or inlet is used as before after the
\* StreamInfo it was made from is dropped.
C19_DisposalOrderFree ==
    /\ ~heap.misuse
    /\ \A h \in 1..heap.created :
          /\ heap.destroyed[h] <= 1
          /\ (Owners(h) = {}) <=> (heap.destroyed[h] = 1)
    /\ \A e \in Made :
          /\ ~ends[e].misuse
          /\ ends[e].destroyed <= 1
          /\ ends[e].live <=> (ends[e].destroyed = 0)

C19_Witness ==
    /\ endOp = [op |-> "use", end |-> 1]
    /\ ends[1].kind = "StreamOutlet"
    /\ heap.destroyed[ends[1].src] = 1
    /\ ends[2].kind = "StreamInlet" /\ ends[2].destroyed = 1
    /\ \E i \in Infos : objs[i].handle = 2 /\ lastOp.op = "info"

(***************************************************************************)
(* The ContinuousResolver.  Time is counted in ticks from the moment the   *)
(* resolver is made; forget_after is a number of ticks.  The engine sees   *)
(* a stream when it begins to advertise and at every tick at which it      *)
(* advertises, and reports the streams it saw less than forget_after ago.  *)
(***************************************************************************)
Streams == 1..MaxStreams

\* the elements of a set of numbers in ascending order
Ascending(S) ==
    CHOOSE q \in [1..Cardinality(S) -> S] : \A i, j \in 1..Cardinality(S) : i < j => q[i] < q[j]

\* the engine's lsl_resolver_results: the streams seen less than
\* forget_after ago go to the buffer, as many as it takes
lsl_resolver_results(r, seen, clk, buffer_elements) ==
    LET known == {s \in Streams : seen[s] >= 0 /\ clk - seen[s] < r.forget_after}
        n == IF Cardinality(known) < buffer_elements THEN Cardinality(known)
             ELSE buffer_elements
    IN  [ret |-> n, written |-> SubSeq(Ascending(known), 1, n)]

\* a results() that would return the first stream of the buffer alone
results_first(ret, written) ==
    IF ec_to_result(ret).tag = "Err" THEN ec_to_result(ret)
    ELSE Ok([i \in 1..(IF ret > 1 THEN 1 ELSE ret) |-> BufferAt(written, i)])

\* pub fn results(&self) -> Result<vec::Vec<StreamInfo>>, given what
\* lsl_resolver_results returned and wrote
results(ret, written) ==
    IF ec_to_result(ret).tag = "Err" THEN ec_to_result(ret)
    ELSE IF ret > BufferLen \/ \E i \in 1..ret : BufferAt(written, i) = 0 THEN Panic
    ELSE Ok([i \in 1..ret |-> BufferAt(written, i)])

CrDone(op, res) ==
    /\ crOp' = op
    /\ crResult' = res
    /\ UNCHANGED notCr

\* ContinuousResolver::new(forget_after)
CrNew ==
    \E forget_after \in 0..MaxForget :
        /\ ~resolver.made
        /\ \E r \in {ContinuousResolver_new(forget_after, FALSE)} :
              /\ resolver' = IF r.res.tag = "Ok"
                             THEN [made |-> TRUE, forget_after |-> forget_after]
                             ELSE resolver
              /\ CrDone("new", r.res)
        /\ UNCHANGED <<netClock, advertising, stoppedAt, lastSeen>>

\* a stream begins to advertise itself
Advertise ==
    \E s \in Streams \ advertising :
        /\ resolver.made
        /\ advertising' = advertising \cup {s}
        /\ stoppedAt' = [stoppedAt EXCEPT ![s] = -1]
        /\ lastSeen' = [lastSeen EXCEPT ![s] = netClock]
        /\ CrDone("advertise", NoResult)
        /\ UNCHANGED <<netClock, resolver>>

\* a stream stops advertising itself
StopAdvertising ==
    \E s \in advertising :
        /\ advertising' = advertising \ {s}
        /\ stoppedAt' = [stoppedAt EXCEPT ![s] = netClock]
        /\ CrDone("stop", NoResult)
        /\ UNCHANGED <<netClock, lastSeen, resolver>>

\* a tick goes by
Tick ==
    /\ resolver.made
    /\ netClock < MaxNow
    /\ netClock' = netClock + 1
    /\ lastSeen' = [s \in Streams |-> IF s \in advertising THEN netClock + 1 ELSE lastSeen[s]]
    /\ CrDone("tick", NoResult)
    /\ UNCHANGED <<advertising, stoppedAt, resolver>>

\* resolver.results()
Results ==
    /\ resolver.made
    /\ \E e \in {lsl_resolver_results(resolver, lastSeen, netClock, BufferLen)} :
          CrDone("results", results(e.ret, e.written))
    /\ UNCHANGED <<netClock, advertising, stoppedAt, lastSeen, resolver>>

CrNext == CrNew \/ Advertise \/ StopAdvertising \/ Tick \/ Results

CrStart == CrOff /\ PushOff /\ PullOff /\ InfoOff /\ DataOff /\ TreeOff /\ ApiOff /\ EndsOff /\ CurOff

SpecResolver == CrStart /\ [][CrNext]_vars

\* stream s is in the list results() returned
InResults(s) == \E i \in 1..Len(crResult.val) : crResult.val[i] = s

\* C20: with a ContinuousResolver made with forget_after = F, a stream
\* that advertises itself is in what results() returns, and a stream that
\* stopped advertising is no longer in it once F has gone by since it
\* stopped; before that it may or may not be.
C20_ForgetAfter ==
    crOp = "results" =>
        /\ crResult.tag = "Ok"
        /\ \A s \in Streams :
              /\ s \in advertising => InResults(s)
              /\ (s \notin advertising /\ stoppedAt[s] = -1) => ~InResults(s)
              /\ (s \notin advertising /\ stoppedAt[s] >= 0
                  /\ netClock - stoppedAt[s] >= resolver.forget_after) => ~InResults(s)

C20_Witness ==
    /\ crOp = "results"
    /\ resolver.forget_after = 2
    /\ advertising = {2}
    /\ stoppedAt[1] = 1
    /\ netClock = 3
    /\ crResult.tag = "Ok" /\ crResult.val = <<2>>

(***************************************************************************)
(* The simple push operations against the extended ones.                   *)
(***************************************************************************)
SpecSimple == PushStart /\ [][SimpleNext]_vars

\* what an operation that ran to st leaves: the calls of push_sample_ex
\* and of the native push, the reads of the clock, the engine's last stamp
\* and the result
Left(st) == <<st.log, st.native, st.clockReads, st.last, st.res>>

\* C21: push_sample(x) does what push_sample_ex(x, 0.0, true) does,
\* push_chunk(c) what push_chunk_ex(c, 0.0, true) does and
\* push_chunk_stamped(c, ts) what push_chunk_stamped_ex(c, ts, true) does:
\* the same pushes with the same stamps and flags, the same reads of the
\* clock, and the same result, panics and errors included.
C21_SimpleIsExtended ==
    [][/\ call'.op = "push_sample" =>
            <<pushLog', native', clockReads', lastStamp', outcome'>> =
                Left(push_sample_ex(Start(lastStamp), outlet, call'.vtype, 0,
                                    call'.lens[1], 0, TRUE, call'.now, call'.ecs[1]))
       /\ call'.op = "push_chunk" =>
            <<pushLog', native', clockReads', lastStamp', outcome'>> =
                Left(push_chunk_ex(Start(lastStamp), outlet, call'.vtype, call'.lens,
                                   0, TRUE, call'.now, call'.ecs))
       /\ call'.op = "push_chunk_stamped" =>
            <<pushLog', native', clockReads', lastStamp', outcome'>> =
                Left(push_chunk_stamped_ex(Start(lastStamp), outlet, call'.vtype,
                                           call'.lens, call'.timestamps, TRUE,
                                           call'.now, call'.ecs, call'.build))]_vars

C21_Witness ==
    /\ call.op = "push_sample"
    /\ outlet.channel_count = 1
    /\ call.lens = <<1>>
    /\ Len(native) = 1
    /\ native[1].timestamp = 0 /\ native[1].pushthrough /\ native[1].sent
    /\ outcome.tag = "Ok"

\* bit b (a power of two) is set in the word w
HasBit(w, b) == (w \div b) % 2 = 1

\* the options of a list
OptionsOf(options) == {options[i] : i \in 1..Len(options)}

\* C22: the flag word set_postprocessing hands to the engine is the
\* bitwise OR of the options: a bit is set in it exactly if an option of
\* the list has it, so the word is the same for every list of the same
\* options, in any order and with any repetition; it is 0 for the empty
\* list, lies in 0..15, and is 15 whenever ALL is in the list.
C22_FlagsAreTheOr ==
    apiCall.fn = "set_postprocessing" =>
        LET word == apiNative[1].flags
            options == apiCall.args.options
        IN  /\ word \in 0..15
            /\ options = <<>> => word = 0
            /\ "ALL" \in OptionsOf(options) => word = 15
            /\ \A b \in {1, 2, 4, 8} :
                  HasBit(word, b) <=> \E o \in OptionsOf(options) : HasBit(ProcessingOption(o), b)
            /\ \A other \in OptionLists :
                  OptionsOf(other) = OptionsOf(options)
                      => set_postprocessing(other, apiCall.args.known).native[1].flags = word

C22_Witness ==
    /\ apiCall.fn = "set_postprocessing"
    /\ apiCall.args.options = <<"Dejitter", "ClockSync">>
    /\ apiNative[1].flags = 3
    /\ apiResult.tag = "Ok"

\* the native values of the seven formats that can be transmitted
TransmittableNative ==
    {to_native(f) : f \in ChannelFormats \ {"Undefined"}}

\* C23: from_native(f.to_native()) is f for each of the eight formats,
\* and from_native gives Undefined for every native value that is not
\* one of the seven transmittable formats.
C23_FormatRoundTrip ==
    /\ apiCall.fn = "to_native" => from_native(apiResult.val) = apiCall.args.f
    /\ (apiCall.fn = "from_native" /\ apiCall.args.fmt \notin TransmittableNative)
           => apiResult.val = "Undefined"

C23_Witness ==
    /\ apiCall.fn = "to_native"
    /\ apiCall.args.f = "Int64"
    /\ apiResult = Ok(lsl_channel_format_t_cft_int64)

\* C24: push_chunk_stamped_ex called with no samples and no time stamps
\* pushes nothing and returns Ok, without a panic, as push_chunk_ex does
\* for an empty chunk.
C24_EmptyStampedChunkIsOk ==
    (call.op = "push_chunk_stamped_ex" /\ call.lens = <<>> /\ call.timestamps = <<>>)
    => /\ outcome = Ok(0)
       /\ pushLog = <<>>
       /\ native = <<>>

\* C25: when push_chunk_ex is given a final time stamp T other than 0.0 on
\* an outlet of regular rate, the time stamp it passes with the first
\* sample is neither 0.0 nor DEDUCED_TIMESTAMP.
C25_FirstStampIsNoSentinel ==
    (/\ call.op = "push_chunk_ex"
     /\ call.timestamps[1] # 0
     /\ outlet.nominal_rate # IRREGULAR_RATE
     /\ Len(pushLog) >= 1)
    => pushLog[1].timestamp \notin {0, DEDUCED_TIMESTAMP}

\* the samples a pull_chunk call took out of the queue: the first of those
\* offered to it, all but the ones still queued
Dequeued == SubSeq(Offered, 1, Len(Offered) - Len(queue))

\* C26: every sample a pull_chunk call removes from the inlet's queue is
\* returned to the caller by that call, also when the call ends with an
\* error after some samples were polled: a call that returns Ok returns
\* the dequeued samples, and a call that returns an error dequeued none.
C26_DequeuedAreReturned ==
    (pull.op = "pull_chunk" /\ pull.pc = "done") =>
        IF pulled.tag = "Ok"
        THEN /\ Len(pulled.val.samples) = Len(Dequeued)
             /\ \A i \in 1..Len(Dequeued) :
                  Payload(pull.ptype, pulled.val.samples[i]) = Dequeued[i].data
        ELSE Dequeued = <<>>

\* the polling loop of pull_chunk runs in the caller's thread and each poll
\* is a pull_sample(0.0), which does not block: a turn that can be taken is
\* taken
SpecPullLive == PullStart /\ [][PullNext]_vars /\ WF_vars(PullChunkTurn)

\* C27: pull_chunk terminates.  While the loop runs every poll so far gave
\* a sample; the call ends with the first poll that gives time stamp 0.0
\* or an error, one poll more than the samples polled (and returned, when
\* the call returns Ok); it does not return Ok while samples are queued;
\* and with finitely many arrivals a running call does return.
C27_PullChunkTerminates ==
    /\ [](pull.op = "pull_chunk" =>
            /\ pull.pc = "loop" => pull.polls = Len(pull.samples)
            /\ pull.pc = "done" =>
                 /\ pull.polls = Len(pull.samples) + 1
                 /\ pull.resp.ts = 0
                 /\ pulled.tag = "Ok" =>
                      /\ pull.polls = Len(pulled.val.samples) + 1
                      /\ pull.resp.ec = 0
                      /\ queue = <<>>)
    /\ (pull.pc = "loop") ~> (pull.pc = "done")

\* a pull_chunk returned the sample that was pending and the one that came
\* while it ran, after three polls
C27_Witness ==
    /\ pull.op = "pull_chunk"
    /\ pull.pc = "done"
    /\ Len(pending0) = 1
    /\ Len(arrived) = 1
    /\ pulled.tag = "Ok"
    /\ Len(pulled.val.samples) = 2
    /\ pull.polls = 3

(***************************************************************************)
(* Cursors into a description tree that is edited.                         *)
(*                                                                         *)
(* An XMLElement holds `cursor`, the address of a node of the engine's     *)
(* tree, or null.  The nodes the program makes have the addresses          *)
(* 1..MaxCurNodes, each used once (node 1 is the element "desc"); the      *)
(* element "info" above "desc" is InfoNode, and the model does not follow  *)
(* the cursors that leave the subtree of "desc".  A node is free (not yet  *)
(* made), in the document, or removed (its memory was released).  Using a  *)
(* cursor to a removed node in a native call reads released memory: the    *)
(* call can crash or return any address.                                   *)
(***************************************************************************)
CurNodes == 1..MaxCurNodes

NullCursor == 0

DescNode == 1

InfoNode == MaxCurNodes + 1

\* an address that is no node of the document
Garbage == MaxCurNodes + 2

\* the native call crashed
Crash == -1

CurNames == {"a", "b"}

\* the cursor is on a node of the document
InDocument(t, c) == c = InfoNode \/ (c \in CurNodes /\ t.state[c] = "in")

\* what a native call that reads released memory can return
Undefined(t) == {Crash, NullCursor, Garbage, InfoNode} \cup {n \in CurNodes : t.state[n] # "free"}

\* the first child of node c named name, or null
NamedChild(t, c, name) ==
    LET ks == {i \in 1..Len(t.kids[c]) : t.name[t.kids[c][i]] = name}
    IN  IF ks = {} THEN NullCursor
        ELSE t.kids[c][CHOOSE i \in ks : \A j \in ks : i <= j]

\* the place of node c among the children of its parent
PlaceOf(t, c) == CHOOSE i \in 1..Len(t.kids[t.parent[c]]) : t.kids[t.parent[c]][i] = c

\* the engine's lsl_first_child, lsl_last_child, lsl_next_sibling,
\* lsl_parent and lsl_child at the cursor c: the cursors it can return;
\* the null cursor for a null cursor ("desc" is the last child of "info")
lsl_navigate(op, t, c, name) ==
    IF c = NullCursor THEN {NullCursor}
    ELSE IF ~InDocument(t, c) THEN Undefined(t)
    ELSE CASE op = "first_child" ->
                {IF t.kids[c] = <<>> THEN NullCursor ELSE t.kids[c][1]}
           [] op = "last_child" ->
                {IF t.kids[c] = <<>> THEN NullCursor ELSE t.kids[c][Len(t.kids[c])]}
           [] op = "next_sibling" ->
                {IF c = DescNode \/ PlaceOf(t, c) = Len(t.kids[t.parent[c]])
                 THEN NullCursor ELSE t.kids[t.parent[c]][PlaceOf(t, c) + 1]}
           [] op = "parent" -> {t.parent[c]}
           [] op = "child" -> {NamedChild(t, c, name)}

\* the node the engine makes next
NewNode(t) == CHOOSE n \in CurNodes : t.state[n] = "free" /\ \A m \in CurNodes : t.state[m] = "free" => n <= m

\* the engine's lsl_append_child / lsl_prepend_child at the cursor c: the
\* trees and cursors [tree, ret] it can leave
lsl_insert_child(op, t, c, name) ==
    IF c = NullCursor THEN {[tree |-> t, ret |-> NullCursor]}
    ELSE IF ~InDocument(t, c) THEN {[tree |-> t, ret |-> r] : r \in Undefined(t)}
    ELSE LET n == NewNode(t)
         IN  {[tree |-> [t EXCEPT !.state[n] = "in", !.name[n] = name, !.parent[n] = c,
                                  !.kids[c] = IF op = "append_child"
                                              THEN Append(@, n) ELSE <<n>> \o @],
               ret |-> n]}

\* node n is node e or below it
RECURSIVE Below(_, _, _)
Below(t, n, e) ==
    IF n = e THEN TRUE
    ELSE IF n \notin CurNodes \/ t.state[n] # "in" \/ n = DescNode THEN FALSE
    ELSE Below(t, t.parent[n], e)

\* the tree without the child e of node c: the node and those below it are
\* released
Removed(t, c, e) ==
    [t EXCEPT !.state = [n \in CurNodes |-> IF Below(t, n, e) THEN "removed" ELSE @[n]],
              !.kids[c] = SelectSeq(@, LAMBDA k : k # e)]

\* a native call that returns nothing left the tree t, or crashed
TreeLeft(t) == [tree |-> t, crashed |-> FALSE]

\* what a native call that returns nothing can do when it reads released
\* memory
UndefinedEdit(t) == {[tree |-> t, crashed |-> FALSE], [tree |-> t, crashed |-> TRUE]}

\* the engine's lsl_remove_child(c, e): what it can leave; nothing is
\* removed unless e is a child of c
lsl_remove_child(t, c, e) ==
    IF c = NullCursor \/ e = NullCursor THEN {TreeLeft(t)}
    ELSE IF ~InDocument(t, c) \/ ~InDocument(t, e) THEN UndefinedEdit(t)
    ELSE IF e \in CurNodes /\ e # DescNode /\ t.parent[e] = c THEN {TreeLeft(Removed(t, c, e))}
    ELSE {TreeLeft(t)}

\* the engine's lsl_remove_child_n(c, name)
lsl_remove_child_n(t, c, name) ==
    IF c = NullCursor THEN {TreeLeft(t)}
    ELSE IF ~InDocument(t, c) THEN UndefinedEdit(t)
    ELSE IF NamedChild(t, c, name) = NullCursor THEN {TreeLeft(t)}
    ELSE {TreeLeft(Removed(t, c, NamedChild(t, c, name)))}

\* pub fn is_valid(&self) -> bool { !self.cursor.is_null() }
is_valid(t, cursor) == cursor # NullCursor

\* info.desc() of a StreamInfo just made
CurInit ==
    /\ curTree = [state |-> [n \in CurNodes |-> IF n = DescNode THEN "in" ELSE "free"],
                  name |-> [n \in CurNodes |-> IF n = DescNode THEN "desc" ELSE ""],
                  parent |-> [n \in CurNodes |-> IF n = DescNode THEN InfoNode ELSE NullCursor],
                  kids |-> [n \in CurNodes |-> <<>>]]
    /\ cursors = <<DescNode>>
    /\ curOp = NoCurOp

\* the program is running and holds cursor i, inside the subtree of "desc"
CanUse(i) ==
    /\ ~curOp.crashed
    /\ i \in 1..Len(cursors)
    /\ cursors[i] \notin {InfoNode, Garbage}

\* an operation at cursor i that returns an XMLElement with the cursor ret
CurReturned(op, i, t, ret) ==
    /\ curTree' = t
    /\ cursors' = IF ret = Crash THEN cursors ELSE Append(cursors, ret)
    /\ curOp' = [op |-> op, at |-> i, valid |-> FALSE, crashed |-> ret = Crash]
    /\ UNCHANGED notCur

\* first_child, last_child, next_sibling, parent, child(name)
CurNavigate ==
    \E i \in 1..Len(cursors),
       op \in {"first_child", "last_child", "next_sibling", "parent", "child"},
       name \in CurNames :
        /\ CanUse(i)
        /\ Len(cursors) < MaxCursors
        /\ op # "child" => name = "a"
        /\ \E ret \in lsl_navigate(op, curTree, cursors[i], name) :
              CurReturned(op, i, curTree, ret)

\* append_child(name), prepend_child(name)
CurInsert ==
    \E i \in 1..Len(cursors), op \in {"append_child", "prepend_child"}, name \in CurNames :
        /\ CanUse(i)
        /\ Len(cursors) < MaxCursors
        /\ \E n \in CurNodes : curTree.state[n] = "free"
        /\ \E r \in lsl_insert_child(op, curTree, cursors[i], name) :
              CurReturned(op, i, r.tree, r.ret)

\* the cursors without the i-th
Without(cs, i) == SubSeq(cs, 1, i - 1) \o SubSeq(cs, i + 1, Len(cs))

\* an operation at cursor i that returns nothing: r is what the native call did
CurEdited(op, i, r, cs) ==
    /\ curTree' = r.tree
    /\ cursors' = cs
    /\ curOp' = [op |-> op, at |-> i, valid |-> FALSE, crashed |-> r.crashed]
    /\ UNCHANGED notCur

\* remove_child(&mut self, e: XMLElement): e is moved into the call
CurRemoveChild ==
    \E i \in 1..Len(cursors), j \in 1..Len(cursors) :
        /\ CanUse(i)
        /\ CanUse(j)
        /\ i # j
        /\ \E r \in lsl_remove_child(curTree, cursors[i], cursors[j]) :
              CurEdited("remove_child", IF j < i THEN i - 1 ELSE i, r, Without(cursors, j))

\* remove_child_named(&mut self, name: &str)
CurRemoveChildNamed ==
    \E i \in 1..Len(cursors), name \in CurNames :
        /\ CanUse(i)
        /\ \E r \in lsl_remove_child_n(curTree, cursors[i], name) :
              CurEdited("remove_child_named", i, r, cursors)

\* e.clone() (#[derive(Clone)])
CurClone ==
    \E i \in 1..Len(cursors) :
        /\ ~curOp.crashed
        /\ Len(cursors) < MaxCursors
        /\ CurReturned("clone", i, curTree, cursors[i])

\* an XMLElement goes out of scope
CurDrop ==
    \E i \in 1..Len(cursors) :
        /\ ~curOp.crashed
        /\ Len(cursors) > 1
        /\ CurEdited("drop", 0, TreeLeft(curTree), Without(cursors, i))

\* e.is_valid()
CurIsValid ==
    \E i \in 1..Len(cursors) :
        /\ ~curOp.crashed
        /\ curOp.op # "is_valid"
        /\ curOp' = [op |-> "is_valid", at |-> i, valid |-> is_valid(curTree, cursors[i]),
                     crashed |-> FALSE]
        /\ UNCHANGED <<curTree, cursors, notCur>>

CurNext ==
    \/ CurNavigate \/ CurInsert \/ CurRemoveChild \/ CurRemoveChildNamed
    \/ CurClone \/ CurDrop \/ CurIsValid

CurStart == CurInit /\ PushOff /\ PullOff /\ InfoOff /\ DataOff /\ TreeOff /\ ApiOff /\ EndsOff /\ CrOff

SpecCursor == CurStart /\ [][CurNext]_vars

\* C28: after any sequence of operations on the metadata tree, a cursor
\* for which is_valid() returned true is on a node that is part of the
\* document: a cursor to a removed node, or to a node below one, is not
\* reported valid.
C28_ValidCursorIsInDocument ==
    (curOp.op = "is_valid" /\ curOp.valid) => InDocument(curTree, cursors[curOp.at])

\* an outlet that only chunks are pushed into
ChunkNext == PushChunkEx \/ PushChunkStampedEx \/ PushReturn

SpecChunk == PushStart /\ [][ChunkNext]_vars

\* C29: push_chunk_ex and push_chunk_stamped_ex are not atomic.  If the
\* push of sample k returns an error the operation returns that error at
\* once: the samples 0..k-1 were transmitted, each with pushthrough =
\* false, and no sample after k was handed to the engine; if no push
\* returns an error all N samples were transmitted and the result is Ok.
C29_ChunkIsNotAtomic ==
    (call.op \in {"push_chunk_ex", "push_chunk_stamped_ex"} /\ outcome.tag \in {"Ok", "Err"})
    => /\ \A i \in 1..Len(native) : native[i].k = i - 1
       /\ IF \E i \in 1..Len(native) : ~native[i].sent
          THEN /\ outcome.tag = "Err"
               /\ ~native[Len(native)].sent
               /\ Len(native) <= ChunkN
               /\ \A i \in 1..(Len(native) - 1) :
                    native[i].sent /\ ~native[i].pushthrough
          ELSE /\ outcome = Ok(0)
               /\ Len(native) = ChunkN

\* the push of the second of three samples failed: the first was
\* transmitted without pushthrough, the third was never pushed
C29_Witness ==
    /\ call.op = "push_chunk_ex"
    /\ ChunkN = 3
    /\ call.pushthrough
    /\ outcome = Err("Internal")
    /\ Len(native) = 2
    /\ native[1].sent /\ ~native[1].pushthrough
    /\ ~native[2].sent

\* an outlet that only push_chunk_ex is called on
ChunkExNext == PushChunkEx \/ PushReturn

SpecChunkEx == PushStart /\ [][ChunkExNext]_vars

\* C30: push_chunk_ex with an empty chunk returns Ok and does nothing: no
\* sample is pushed, the clock is not read and the outlet is as it was,
\* whatever the time stamp and the pushthrough flag.
C30_EmptyChunkIsNoOp ==
    [][(call'.op = "push_chunk_ex" /\ call'.lens = <<>>)
        => /\ outcome' = Ok(0)
           /\ pushLog' = <<>>
           /\ native' = <<>>
           /\ clockReads' = <<>>
           /\ lastStamp' = lastStamp
           /\ outlet' = outlet]_vars

\* an empty chunk was pushed with time stamp 0.0 ("now") and pushthrough
C30_Witness ==
    /\ call.op = "push_chunk_ex"
    /\ call.lens = <<>>
    /\ call.timestamps = <<0>>
    /\ call.pushthrough
    /\ outcome = Ok(0)
    /\ clockReads = <<>>
    /\ native = <<>>

====
